---- MODULE Spec2Model ----
(***************************************************************************)
(* rwshell session multiplexer (src/src/server.rs).                        *)
(*                                                                         *)
(* One PTY reader thread, one connection handler per websocket client      *)
(* (attach handshake, then a sender task and a receiver task), the resize  *)
(* coordinator (process_resize_request, apply_resize, the pending-resize   *)
(* processor) and the host terminal size poller.                           *)
(*                                                                         *)
(* Bytes of the PTY output stream are identified by their position in the  *)
(* stream (1, 2, 3, ...).  A run of bytes is a segment [lo, hi]; a byte    *)
(* vector (Vec<u8>) is a sequence of segments.                             *)
(*                                                                         *)
(* Every step below is one access to a shared object (a mutex-protected    *)
(* field, the broadcast channel, the transport), so that the interleavings *)
(* of the tasks are those of the program.  The clock counts milliseconds;  *)
(* handler steps take no time, time passes between them.                   *)
(***************************************************************************)
EXTENDS Integers, Sequences, FiniteSets, TLC

(***************************************************************************)
(* Bounds of the model.                                                    *)
(***************************************************************************)
NumClients == 2
MaxChunks == 3
MaxFrames == 3
MaxHostResizes == 2
MaxTime == 200
MaxSigints == 1

Clients == 1..NumClients

(***************************************************************************)
(* Program constants.                                                      *)
(***************************************************************************)
MIN_COLS == 10
MIN_ROWS == 5
MAX_COLS == 1000
MAX_ROWS == 1000
MIN_RESIZE_INTERVAL == 100
CHECK_INTERVAL == 50
MAX_BUFFER_SIZE == 1024
READ_BUFFER_SIZE == 1024
CHANNEL_CAPACITY == 1024
\* length of the marker "WINSIZE:" that tags an announcement on the channel
MARKER_LEN == 8

(***************************************************************************)
(* Inputs.                                                                 *)
(***************************************************************************)
\* byte counts one PTY read may return (1..READ_BUFFER_SIZE)
ChunkSizes == {600}
\* sizes a client may request or the host terminal may take
ValidSizes == {<<80, 25>>, <<100, 30>>, <<111, 30>>}
InvalidSizes == {<<9, 30>>, <<80, 1001>>}
AllSizes == ValidSizes \cup InvalidSizes
\* the clock advances in steps of this many milliseconds
TimeStep == 50

(***************************************************************************)
(* is_valid_terminal_size                                                  *)
(***************************************************************************)
is_valid_terminal_size_nomin(cols, rows) ==
    /\ ~(cols = 0 \/ rows = 0)
    /\ cols <= MAX_COLS
    /\ rows >= MIN_ROWS /\ rows <= MAX_ROWS

is_valid_terminal_size(cols, rows) ==
    /\ ~(cols = 0 \/ rows = 0)
    /\ cols >= MIN_COLS /\ cols <= MAX_COLS
    /\ rows >= MIN_ROWS /\ rows <= MAX_ROWS

(***************************************************************************)
(* Byte vectors as sequences of segments.                                  *)
(***************************************************************************)
Seg(lo, hi) == [lo |-> lo, hi |-> hi]
SegLen(s) == s.hi - s.lo + 1

RECURSIVE VecLen(_)
VecLen(v) == IF v = <<>> THEN 0 ELSE SegLen(Head(v)) + VecLen(Tail(v))

\* Vec::drain(0..n): remove the first n bytes
RECURSIVE DrainHead(_, _)
DrainHead(v, n) ==
    IF n = 0 \/ v = <<>> THEN v
    ELSE IF SegLen(Head(v)) <= n
         THEN DrainHead(Tail(v), n - SegLen(Head(v)))
         ELSE <<Seg(Head(v).lo + n, Head(v).hi)>> \o Tail(v)

\* the reader's append to output_buffer: extend_from_slice, then keep the
\* last MAX_BUFFER_SIZE bytes
BufferAppend(buf, chunk) ==
    LET ext == Append(buf, Seg(chunk.lo, chunk.hi))
    IN  IF VecLen(ext) > MAX_BUFFER_SIZE
        THEN DrainHead(ext, VecLen(ext) - MAX_BUFFER_SIZE)
        ELSE ext

(***************************************************************************)
(* Frames on the wire (TtyMessage with its decoded inner message).         *)
(***************************************************************************)
WinSizeFrame(size) == [type |-> "WinSize", cols |-> size[1], rows |-> size[2]]
ReadOnlyFrame(b) == [type |-> "ReadOnly", flag |-> b]
HeadlessFrame(b) == [type |-> "Headless", flag |-> b]
\* general_purpose::STANDARD.encode(bytes): four characters for every three
\* bytes, the last group padded with '='
Base64Encode(data) ==
    [chars |-> 4 * ((VecLen(data) + 2) \div 3),
     pad   |-> (3 - (VecLen(data) % 3)) % 3,
     of    |-> data]
\* the bytes a client gets back from the Data field, and how many they are
Base64Decode(text) == text.of
Base64DecodedLen(text) == (text.chars \div 4) * 3 - text.pad

\* WriteMessage { size: data.len(), data: base64(data) }
WriteFrame(data) ==
    [type |-> "Write", size |-> VecLen(data), data |-> Base64Encode(data)]
\* a text message that is no TtyMessage built by the server: the bytes that
\* follow the marker of a raw chunk, forwarded verbatim
TextFrame(data) == [type |-> "Text", data |-> data]

(***************************************************************************)
(* Items of the broadcast channel (Vec<u8>).  marked: the bytes are valid  *)
(* UTF-8 and start with "WINSIZE:".  An announcement is the marker         *)
(* followed by the serialized WinSize TtyMessage; a raw chunk is whatever  *)
(* the PTY printed.                                                        *)
(***************************************************************************)
RawItem(chunk) ==
    [marked |-> chunk.marked, origin |-> "pty", body |-> chunk.body,
     lo |-> chunk.lo, hi |-> chunk.hi, size |-> <<0, 0>>]
AnnounceItem(size) ==
    [marked |-> TRUE, origin |-> "resize", body |-> "WinSize",
     lo |-> 0, hi |-> 0, size |-> size]

\* what the bytes after the marker of a raw chunk are when a client parses
\* them: no TtyMessage at all ("text"), or a TtyMessage the child has
\* printed: a ReadOnly frame, or a Write frame whose Size the child chose
MarkedBodies == {"text", "ReadOnly", "Write"}
ChildText(body, bytes) ==
    CASE body = "ReadOnly" -> ReadOnlyFrame(TRUE)
      [] body = "Write"    -> [type |-> "Write", size |-> 0, data |-> Base64Encode(bytes)]
      [] OTHER             -> TextFrame(bytes)

\* what strip_prefix("WINSIZE:") leaves, sent as a text message
StripMarker(item) ==
    IF item.origin = "resize"
    THEN WinSizeFrame(item.size)
    ELSE ChildText(item.body, <<Seg(item.lo + MARKER_LEN, item.hi)>>)

\* the frame the sender task builds from a channel item
SenderFrame(item) ==
    IF item.marked
    THEN StripMarker(item)
    ELSE WriteFrame(<<Seg(item.lo, item.hi)>>)

VARIABLES
    readonly,          \* AppState.readonly
    headless,          \* AppState.headless
    rd_pc,             \* PTY reader thread: "read", "check", "publish", "buffer"
    rd_data,           \* the chunk the reader holds (data)
    stream,            \* history: the chunks read from the PTY so far
    output_buffer,     \* AppState.output_buffer
    rx,                \* per client: the items queued for its Receiver (pty_rx)
    lagged,            \* per client: its Receiver has been overrun
    pc,                \* per client: position of handle_socket
    sent,              \* history, per client: frames handed to its transport
    broken,            \* per client: the transport is closed or reset
    snd_alive,         \* per client: sender_task runs (it owns pty_rx)
    rcv_alive,         \* per client: receiver_task runs
    rcvd,              \* history, per client: frames received from it
    pty_written,       \* history: payloads written to the PTY writer
    current_size,      \* AppState.current_size
    pty_size,          \* the size of the PTY master
    last_resize_time,  \* AppState.last_resize_time
    pending_resize,    \* AppState.pending_resize: <<>> is None, <<s>> is Some(s)
    now,               \* the monotonic clock, in ms since startup
    next_tick,         \* when the pending-resize processor's interval ticks next
    rs_pc,             \* per client: position of its receiver_task in a resize
    rs_val,            \* per client: the size its receiver_task is applying
    pp_pc,             \* position of the pending-resize processor
    pp_val,            \* the pending value the processor has read
    host_size,         \* the size of the host terminal
    host_changes,      \* how often the host terminal size has changed
    last_size,         \* the size poller's last_size
    poll_pc,           \* position of the size poller
    poll_val,          \* the size the poller read (its local current_size)
    resize_log,        \* history: the resize calls the PTY received
    requests,          \* history: the valid client WinSize requests, in order
    att,               \* history, per client: its attach (see NoAttach)
    obs,               \* history: what the reader observed (see NoObs)
    phase,             \* position of RwShellServer::run: "validate", "openpty",
                       \* "spawn", "raw", "bind", "serving", "returned"
    init_size,         \* the initial (cols, rows) that run() determined
    pty_open,          \* openpty has succeeded
    child,             \* the child process: "none", "running", "exited"
    bound,             \* the listener is bound
    termios,           \* original_termios is Some(..)
    raw_mode,          \* the controlling terminal is in raw mode
    cancelled,         \* the shutdown token (CancellationToken) is cancelled
    shutdown_sent,     \* the reader has sent on shutdown_tx
    child_sent,        \* the child monitor has sent on child_shutdown_tx
    mon_pc,            \* child monitor: "poll", "send", "cancel", "done"
    sig_pc,            \* shutdown_signal: "wait", then its branch, then "done"
    timer,             \* the spawned task that sleeps 100 ms and exits is armed
    rd_end,            \* how the reader's read ended: "none", "eof", "err"
    sigints,           \* how many interrupt signals the host process got
    exit_status,       \* <<>> while the process runs, <<n>> once it has exited
    initiator,         \* history: what first set shutdown in motion
    stdin_pc,          \* the host stdin reader thread: "read", "ended"
    client             \* the attach-client program (see ClientInit)

hub_vars == <<rd_pc, rd_data, stream, output_buffer, rx, lagged>>
conn_vars == <<pc, sent, broken, snd_alive, rcv_alive, rcvd, pty_written>>
size_vars == <<current_size, pty_size, last_resize_time, pending_resize>>
coord_vars == <<now, next_tick, rs_pc, rs_val, pp_pc, pp_val>>
host_vars == <<host_size, host_changes, last_size, poll_pc, poll_val>>
hist_vars == <<resize_log, requests, att, obs>>
start_vars == <<phase, init_size, pty_open, child, bound, termios, raw_mode>>
stop_vars == <<cancelled, shutdown_sent, child_sent, mon_pc, sig_pc, timer, rd_end,
               sigints, exit_status, initiator>>
life_vars == <<start_vars, stop_vars, stdin_pc, client>>
vars == <<readonly, headless, hub_vars, conn_vars, size_vars, coord_vars,
          host_vars, hist_vars, life_vars>>

\* the process serves and has not exited: the tasks that run() spawned run
Running == phase = "serving" /\ exit_status = <<>>

(***************************************************************************)
(* The broadcast channel.                                                  *)
(***************************************************************************)
\* a client holds a Receiver from subscribe() until handle_socket returns
\* during the handshake or, once spawned, until its sender_task ends
Subscribed(c) ==
    \/ pc[c] \in {"sendWinSize", "sendingWinSize", "sendReadOnly", "sendHeadless",
                 "drain", "draining"}
    \/ snd_alive[c]

\* the lock of AppState.current_size is free: no connection is inside the
\* block of its initial WinSize, waiting for the send to complete
SizeLockFree == \A c \in Clients : pc[c] # "sendingWinSize"

\* the lock of AppState.output_buffer is free: no connection is inside its
\* replay drain, waiting for the send of the replay to complete
BufferLockFree == \A c \in Clients : pc[c] # "draining"

\* pty_tx.receiver_count()
receiver_count == Cardinality({c \in Clients : Subscribed(c)})

\* a channel that drops an item equal to the one queued last
SendRx_dedup(item) ==
    [c \in Clients |->
        IF ~Subscribed(c) \/ (rx[c] # <<>> /\ rx[c][Len(rx[c])] = item) THEN rx[c]
        ELSE Append(rx[c], item)]

\* pty_tx.send(item): every live Receiver gets the item; one that is
\* CHANNEL_CAPACITY items behind loses its oldest item and is marked lagged;
\* with no Receiver the item is dropped
SendRx(item) ==
    [c \in Clients |->
        IF ~Subscribed(c) THEN rx[c]
        ELSE IF Len(rx[c]) >= CHANNEL_CAPACITY
             THEN Append(Tail(rx[c]), item)
             ELSE Append(rx[c], item)]
SendLagged(item) ==
    [c \in Clients |-> lagged[c] \/ (Subscribed(c) /\ Len(rx[c]) >= CHANNEL_CAPACITY)]

\* History of a connection's attach.
\*   sub_total: the bytes read from the PTY when it subscribed
\*   done:      it has passed the replay drain
\*   replay:    the payload replayed to it
\*   due:       at its drain, the bytes of the chunks for which the reader had
\*              seen zero subscribers
\*   clean:     at its drain, another client had drained before and the reader
\*              had not seen zero subscribers since
NoAttach ==
    [sub_total |-> 0, done |-> FALSE, replay |-> <<>>, due |-> 0, clean |-> FALSE]

\* History of the reader's observations.
\*   zs_total: the end of the last chunk for which it saw zero subscribers
\*   zs_seen:  it saw zero subscribers since the last drain
\*   drained:  some client has passed the replay drain
NoObs == [zs_total |-> 0, zs_seen |-> FALSE, drained |-> FALSE]

StreamTotal == IF stream = <<>> THEN 0 ELSE stream[Len(stream)].hi

\* the server's state at construction (AppState and the tasks' locals)
InitState ==
    /\ readonly \in BOOLEAN
    /\ headless \in BOOLEAN
    /\ rd_pc = "read"
    /\ rd_data = [lo |-> 0, hi |-> 0, marked |-> FALSE, body |-> "none"]
    /\ stream = <<>>
    /\ output_buffer = <<>>
    /\ rx = [c \in Clients |-> <<>>]
    /\ lagged = [c \in Clients |-> FALSE]
    /\ pc = [c \in Clients |-> "idle"]
    /\ sent = [c \in Clients |-> <<>>]
    /\ broken = [c \in Clients |-> FALSE]
    /\ snd_alive = [c \in Clients |-> FALSE]
    /\ rcv_alive = [c \in Clients |-> FALSE]
    /\ rcvd = [c \in Clients |-> <<>>]
    /\ pty_written = <<>>
    /\ current_size = <<80, 25>>
    /\ pty_size = <<80, 25>>
    /\ last_resize_time = 0
    /\ pending_resize = <<>>
    /\ now = 0
    /\ next_tick = 0
    /\ rs_pc = [c \in Clients |-> "idle"]
    /\ rs_val = [c \in Clients |-> <<80, 25>>]
    /\ pp_pc = "wait"
    /\ pp_val = <<80, 25>>
    /\ host_size = <<80, 25>>
    /\ host_changes = 0
    /\ last_size = <<80, 25>>
    /\ poll_pc = "wait"
    /\ poll_val = <<80, 25>>
    /\ resize_log = <<>>
    /\ requests = <<>>
    /\ att = [c \in Clients |-> NoAttach]
    /\ obs = NoObs

\* The attach-client (src/bin/client.rs), connected and running.
\*   server_headless:     the flag its stdout_task keeps (false at first)
\*   window_size_changed: WINDOW_SIZE_CHANGED, set by the SIGWINCH handler
\*   term_size:           the size of the client's terminal
\*   changes:             how often that size has changed
\*   last_size:           winsize_task's last_size
\*   size_chan:           the sizes queued from winsize_task to sender_task
\*   ws_sent:             history: the frames it sent to the server
\*   heard:               history: the values of the Headless frames it got
ClientInit ==
    [server_headless |-> FALSE, window_size_changed |-> FALSE,
     term_size |-> <<80, 24>>, changes |-> 0, last_size |-> <<80, 24>>,
     size_chan |-> <<>>, ws_sent |-> <<>>, heard |-> <<>>]

\* nothing has set shutdown in motion
InitStop ==
    /\ cancelled = FALSE
    /\ shutdown_sent = FALSE
    /\ child_sent = FALSE
    /\ mon_pc = "poll"
    /\ sig_pc = "wait"
    /\ timer = FALSE
    /\ rd_end = "none"
    /\ sigints = 0
    /\ exit_status = <<>>
    /\ initiator = "none"
    /\ stdin_pc = "read"
    /\ client = ClientInit

\* run() has started the child on its PTY, installed raw mode (interactive)
\* and bound the listener; axum::serve is running
InitServing ==
    /\ phase = "serving"
    /\ init_size = <<80, 25>>
    /\ pty_open = TRUE
    /\ child = "running"
    /\ bound = TRUE
    /\ termios = ~headless
    /\ raw_mode = ~headless

Init == InitState /\ InitServing /\ InitStop

\* run() is entered: nothing is opened, spawned, bound or installed yet
InitStartup ==
    /\ InitState
    /\ InitStop
    /\ phase = "size"
    /\ init_size = <<80, 25>>
    /\ pty_open = FALSE
    /\ child = "none"
    /\ bound = FALSE
    /\ termios = FALSE
    /\ raw_mode = FALSE

(***************************************************************************)
(* The PTY reader thread (RwShellServer::run, spawn_blocking).             *)
(***************************************************************************)
\* reader.read(&mut buffer) returns n > 0 bytes; marks: whether the bytes may
\* start with the marker
ReaderRead(marks) ==
    /\ Running
    /\ rd_pc = "read"
    /\ Len(stream) < MaxChunks
    /\ \E n \in ChunkSizes, m \in marks :
       \E b \in (IF m THEN MarkedBodies ELSE {"none"}) :
         LET chunk == [lo |-> StreamTotal + 1, hi |-> StreamTotal + n,
                       marked |-> m, body |-> b]
         IN  /\ rd_data' = chunk
             /\ stream' = Append(stream, chunk)
    /\ rd_pc' = "check"
    /\ UNCHANGED <<life_vars, readonly, headless, output_buffer, rx, lagged, conn_vars,
                   size_vars, coord_vars, host_vars, hist_vars>>

\* let has_subscribers = pty_tx_clone.receiver_count() > 0
ReaderCheck ==
    /\ Running
    /\ rd_pc = "check"
    /\ rd_pc' = IF receiver_count > 0 THEN "publish" ELSE "buffer"
    /\ obs' = IF receiver_count = 0
              THEN [obs EXCEPT !.zs_total = rd_data.hi, !.zs_seen = TRUE]
              ELSE obs
    /\ UNCHANGED <<life_vars, readonly, headless, rd_data, stream, output_buffer, rx, lagged,
                   conn_vars, size_vars, coord_vars, host_vars,
                   resize_log, requests, att>>

\* pty_tx_clone.send(data.clone()), its error ignored
ReaderPublish ==
    /\ Running
    /\ rd_pc = "publish"
    /\ rx' = SendRx(RawItem(rd_data))
    /\ lagged' = SendLagged(RawItem(rd_data))
    /\ rd_pc' = "read"
    /\ UNCHANGED <<life_vars, readonly, headless, rd_data, stream, output_buffer, conn_vars,
                   size_vars, coord_vars, host_vars, hist_vars>>

\* the chunks of k reads in a row, the first starting after total bytes
BurstChunks(total, k) ==
    [i \in 1..k |->
        [lo |-> total + (i - 1) * READ_BUFFER_SIZE + 1, hi |-> total + i * READ_BUFFER_SIZE,
         marked |-> FALSE, body |-> "none"]]

\* a Receiver's queue after the items were sent one by one: the channel keeps
\* the last CHANNEL_CAPACITY of them
QueueAfter(q, items) ==
    LET all == q \o items
    IN  IF Len(all) > CHANNEL_CAPACITY
        THEN SubSeq(all, Len(all) - CHANNEL_CAPACITY + 1, Len(all))
        ELSE all

\* k turns of the reader's loop in a row while no other task gets to run (a
\* client stalled in its send, a child that prints fast): each read finds a
\* subscriber and is published
ReaderBurst(k) ==
    /\ Running
    /\ rd_pc = "read"
    /\ receiver_count > 0
    /\ Len(stream) < MaxChunks
    /\ LET chunks == BurstChunks(StreamTotal, k)
           items == [i \in 1..k |-> RawItem(chunks[i])]
       IN  /\ stream' = stream \o chunks
           /\ rd_data' = chunks[k]
           /\ rx' = [c \in Clients |->
                        IF Subscribed(c) THEN QueueAfter(rx[c], items) ELSE rx[c]]
           /\ lagged' = [c \in Clients |->
                            lagged[c] \/ (Subscribed(c) /\ Len(rx[c]) + k > CHANNEL_CAPACITY)]
    /\ UNCHANGED <<life_vars, readonly, headless, rd_pc, output_buffer, conn_vars,
                   size_vars, coord_vars, host_vars, hist_vars>>

\* output_buffer.blocking_lock(); extend_from_slice; drain(0..start)
ReaderBuffer ==
    /\ Running
    /\ rd_pc = "buffer"
    /\ BufferLockFree
    /\ output_buffer' = BufferAppend(output_buffer, rd_data)
    /\ rd_pc' = "read"
    /\ UNCHANGED <<life_vars, readonly, headless, rd_data, stream, rx, lagged, conn_vars,
                   size_vars, coord_vars, host_vars, hist_vars>>

(***************************************************************************)
(* handle_socket: the attach handshake.                                    *)
(***************************************************************************)
\* what a connection leaves behind when handle_socket returns or its
\* sender_task ends: the Receiver is dropped with its queue
DropReceiver(c) ==
    /\ rx' = [rx EXCEPT ![c] = <<>>]
    /\ lagged' = [lagged EXCEPT ![c] = FALSE]

\* sender.send(Message::Text(..)).await on the connection's transport: it
\* succeeds while the transport is up; the peer may have closed or reset it
\* at any moment before, and then this send and all later ones fail
\* (outs: the outcomes in scope, {TRUE} when no transport fails)
SendOutcomes(c, outs) == IF broken[c] THEN {FALSE} ELSE outs

\* a websocket is accepted (clients are numbered in the order they connect);
\* let mut pty_rx = state.pty_tx.subscribe()
Accept(c) ==
    /\ Running
    /\ sig_pc # "done"
    /\ pc[c] = "idle"
    /\ IF c = 1 THEN TRUE ELSE pc[c - 1] # "idle"
    /\ pc' = [pc EXCEPT ![c] = "sendWinSize"]
    /\ att' = [att EXCEPT ![c].sub_total = StreamTotal]
    /\ UNCHANGED <<life_vars, readonly, headless, hub_vars, sent, broken, snd_alive, rcv_alive,
                   rcvd, pty_written, size_vars, coord_vars, host_vars,
                   resize_log, requests, obs>>

\* the size the initial WinSize message carries: *state.current_size.lock()
HandshakeSize_initial == <<80, 25>>

HandshakeSize == current_size

\* one handshake message: send it and go on, or return on a send error
HandshakeSend(c, frame, next, ok) ==
    IF ok
    THEN /\ sent' = [sent EXCEPT ![c] = Append(sent[c], frame)]
         /\ pc' = [pc EXCEPT ![c] = next]
         /\ UNCHANGED <<rx, lagged, broken>>
    ELSE /\ pc' = [pc EXCEPT ![c] = "closed"]
         /\ broken' = [broken EXCEPT ![c] = TRUE]
         /\ DropReceiver(c)
         /\ UNCHANGED sent

HsWinSize(c, outs) ==
    /\ Running
    /\ pc[c] = "sendWinSize"
    /\ SizeLockFree
    /\ \E ok \in SendOutcomes(c, outs) :
         HandshakeSend(c, WinSizeFrame(HandshakeSize), "sendReadOnly", ok)
    /\ UNCHANGED <<life_vars, readonly, headless, rd_pc, rd_data, stream, output_buffer,
                   snd_alive, rcv_alive, rcvd, pty_written,
                   size_vars, coord_vars, host_vars, hist_vars>>

\* the initial WinSize step by step.  state.current_size.lock().await is
\* taken and sender.send(..).await is pending with the lock held
WinSizeBegin(c) ==
    /\ Running
    /\ pc[c] = "sendWinSize"
    /\ SizeLockFree
    /\ pc' = [pc EXCEPT ![c] = "sendingWinSize"]
    /\ UNCHANGED <<life_vars, readonly, headless, hub_vars, sent, broken, snd_alive,
                   rcv_alive, rcvd, pty_written, size_vars, coord_vars, host_vars,
                   hist_vars>>

\* the pending send completes or fails, and the lock is released
WinSizeEnd(c, outs) ==
    /\ Running
    /\ pc[c] = "sendingWinSize"
    /\ \E ok \in SendOutcomes(c, outs) :
         HandshakeSend(c, WinSizeFrame(HandshakeSize), "sendReadOnly", ok)
    /\ UNCHANGED <<life_vars, readonly, headless, rd_pc, rd_data, stream, output_buffer,
                   snd_alive, rcv_alive, rcvd, pty_written,
                   size_vars, coord_vars, host_vars, hist_vars>>

HsReadOnly(c, outs) ==
    /\ Running
    /\ pc[c] = "sendReadOnly"
    /\ \E ok \in SendOutcomes(c, outs) :
         HandshakeSend(c, ReadOnlyFrame(readonly), "sendHeadless", ok)
    /\ UNCHANGED <<life_vars, readonly, headless, rd_pc, rd_data, stream, output_buffer,
                   snd_alive, rcv_alive, rcvd, pty_written,
                   size_vars, coord_vars, host_vars, hist_vars>>

HsHeadless(c, outs) ==
    /\ Running
    /\ pc[c] = "sendHeadless"
    /\ \E ok \in SendOutcomes(c, outs) :
         HandshakeSend(c, HeadlessFrame(headless), "drain", ok)
    /\ UNCHANGED <<life_vars, readonly, headless, rd_pc, rd_data, stream, output_buffer,
                   snd_alive, rcv_alive, rcvd, pty_written,
                   size_vars, coord_vars, host_vars, hist_vars>>

\* the buffer after a successful replay: output_buffer.clear()
AfterReplay(buf) == <<>>

\* a drain that gives up its buffer when the send fails
AfterFailedReplay_cleared(buf) == <<>>

\* the send of the replay failed: handle_socket returns before
\* output_buffer.clear(), and the guard is dropped
AfterFailedReplay(buf) == buf

\* the replay drain, under the output_buffer lock: if the buffer is not
\* empty send it as one Write and clear it; then spawn the two tasks
DrainSend(c, outs) ==
    /\ \E ok \in (IF output_buffer = <<>> THEN {TRUE} ELSE SendOutcomes(c, outs)) :
         IF ~ok
         THEN /\ pc' = [pc EXCEPT ![c] = "closed"]
              /\ broken' = [broken EXCEPT ![c] = TRUE]
              /\ DropReceiver(c)
              /\ output_buffer' = AfterFailedReplay(output_buffer)
              /\ UNCHANGED <<sent, snd_alive, rcv_alive, att, obs>>
         ELSE /\ sent' = [sent EXCEPT ![c] =
                            IF output_buffer # <<>>
                            THEN Append(sent[c], WriteFrame(output_buffer))
                            ELSE sent[c]]
              /\ output_buffer' = IF output_buffer # <<>>
                                  THEN AfterReplay(output_buffer)
                                  ELSE output_buffer
              /\ pc' = [pc EXCEPT ![c] = "active"]
              /\ snd_alive' = [snd_alive EXCEPT ![c] = TRUE]
              /\ rcv_alive' = [rcv_alive EXCEPT ![c] = TRUE]
              /\ att' = [att EXCEPT ![c].done = TRUE,
                                    ![c].replay = output_buffer,
                                    ![c].due = obs.zs_total,
                                    ![c].clean = obs.drained /\ ~obs.zs_seen]
              /\ obs' = [obs EXCEPT !.drained = TRUE, !.zs_seen = FALSE]
              /\ UNCHANGED <<rx, lagged, broken>>
    /\ UNCHANGED <<life_vars, readonly, headless, rd_pc, rd_data, stream,
                   rcvd, pty_written, size_vars, coord_vars, host_vars,
                   resize_log, requests>>

\* the drain in one step: the send of the replay completes at once
HsDrain(c, outs) ==
    /\ Running
    /\ pc[c] = "drain"
    /\ BufferLockFree
    /\ DrainSend(c, outs)

\* the drain step by step.  state.output_buffer.lock().await is taken, the
\* buffer is not empty and sender.send(..).await of the replay is pending
\* with the lock held
DrainBegin(c) ==
    /\ Running
    /\ pc[c] = "drain"
    /\ BufferLockFree
    /\ output_buffer # <<>>
    /\ pc' = [pc EXCEPT ![c] = "draining"]
    /\ UNCHANGED <<life_vars, readonly, headless, hub_vars, sent, broken, snd_alive,
                   rcv_alive, rcvd, pty_written, size_vars, coord_vars, host_vars,
                   hist_vars>>

\* the pending send completes or fails, and the lock is released
DrainEnd(c, outs) ==
    /\ Running
    /\ pc[c] = "draining"
    /\ DrainSend(c, outs)

(***************************************************************************)
(* handle_socket: sender_task.                                             *)
(***************************************************************************)
\* while let Ok(data) = pty_rx.recv().await { ... send ... }: a lagged
\* Receiver or a failed send ends the task, and the select! in handle_socket
\* returns
CloseSender_all(c) == [d \in Clients |-> FALSE]

\* the break out of the loop ends the sender task of this connection
CloseSender(c) == [snd_alive EXCEPT ![c] = FALSE]

SenderStep(c, outs) ==
    /\ Running
    /\ snd_alive[c]
    /\ lagged[c] \/ rx[c] # <<>>
    /\ \E ok \in (IF lagged[c] THEN {FALSE} ELSE SendOutcomes(c, outs)) :
         IF ok
         THEN /\ sent' = [sent EXCEPT ![c] = Append(sent[c], SenderFrame(Head(rx[c])))]
              /\ rx' = [rx EXCEPT ![c] = Tail(rx[c])]
              /\ UNCHANGED <<lagged, snd_alive, pc, broken>>
         ELSE /\ snd_alive' = CloseSender(c)
              /\ pc' = [pc EXCEPT ![c] = "closed"]
              /\ broken' = [broken EXCEPT ![c] = broken[c] \/ ~lagged[c]]
              /\ DropReceiver(c)
              /\ UNCHANGED sent
    /\ UNCHANGED <<life_vars, readonly, headless, rd_pc, rd_data, stream, output_buffer,
                   rcv_alive, rcvd, pty_written,
                   size_vars, coord_vars, host_vars, hist_vars>>

(***************************************************************************)
(* Host stdin forwarding (interactive mode only).                          *)
(***************************************************************************)
\* stdin.read returns n > 0 bytes; they are written to the PTY under the
\* writer lock
StdinForward ==
    /\ Running
    /\ ~headless
    /\ stdin_pc = "read"
    /\ Len(pty_written) < MaxFrames
    /\ pty_written' = Append(pty_written, [src |-> "stdin", id |-> 0, data |-> "k"])
    /\ UNCHANGED <<life_vars, readonly, headless, hub_vars, pc, sent, broken, snd_alive, rcv_alive,
                   rcvd, size_vars, coord_vars, host_vars, hist_vars>>

(***************************************************************************)
(* The host terminal size poller (interactive mode only).                  *)
(***************************************************************************)
\* the PTY master's resize: the ioctl succeeds (ok) or fails and leaves the
\* size as it was; either way the PTY has received the call
PtyResize(size, ok, source) ==
    /\ pty_size' = IF ok THEN size ELSE pty_size
    /\ resize_log' = Append(resize_log, [t |-> now, size |-> size, src |-> source,
                                          ok |-> ok])

\* the user resizes the host terminal
HostResize(sizes) ==
    /\ Running
    /\ ~headless
    /\ host_changes < MaxHostResizes
    /\ \E s \in sizes \ {host_size} : host_size' = s
    /\ host_changes' = host_changes + 1
    /\ UNCHANGED <<life_vars, readonly, headless, hub_vars, conn_vars, size_vars, coord_vars,
                   last_size, poll_pc, poll_val, hist_vars>>

\* interval.tick(): get_terminal_size(), compared with last_size, validated
PollTick ==
    /\ Running
    /\ ~headless
    /\ poll_pc = "wait"
    /\ host_size # last_size
    /\ IF is_valid_terminal_size(host_size[1], host_size[2])
       THEN /\ poll_val' = host_size
            /\ poll_pc' = "setSize"
       ELSE UNCHANGED <<poll_val, poll_pc>>
    /\ UNCHANGED <<life_vars, readonly, headless, hub_vars, conn_vars, size_vars, coord_vars,
                   host_size, host_changes, last_size, hist_vars>>

PollSetSize ==
    /\ Running
    /\ poll_pc = "setSize"
    /\ SizeLockFree
    /\ current_size' = poll_val
    /\ poll_pc' = "resizePty"
    /\ UNCHANGED <<life_vars, readonly, headless, hub_vars, conn_vars, pty_size, last_resize_time,
                   pending_resize, coord_vars, host_size, host_changes, last_size,
                   poll_val, hist_vars>>

PollResizePty(oks) ==
    /\ Running
    /\ poll_pc = "resizePty"
    /\ \E ok \in oks : PtyResize(poll_val, ok, "host")
    /\ poll_pc' = "announce"
    /\ UNCHANGED <<life_vars, readonly, headless, hub_vars, conn_vars, current_size,
                   last_resize_time, pending_resize, coord_vars, host_size,
                   host_changes, last_size, poll_val, requests, att, obs>>

\* a poller that keeps the new size to itself
PollAnnounce_silent ==
    /\ Running
    /\ poll_pc = "announce"
    /\ last_size' = poll_val
    /\ poll_pc' = "wait"
    /\ UNCHANGED <<life_vars, readonly, headless, hub_vars, conn_vars, size_vars,
                   coord_vars, host_size, host_changes, poll_val, hist_vars>>

\* pty_tx_resize.send("WINSIZE:{json}"), its error ignored; last_size = current_size
PollAnnounce ==
    /\ Running
    /\ poll_pc = "announce"
    /\ rx' = SendRx(AnnounceItem(poll_val))
    /\ lagged' = SendLagged(AnnounceItem(poll_val))
    /\ last_size' = poll_val
    /\ poll_pc' = "wait"
    /\ UNCHANGED <<life_vars, readonly, headless, rd_pc, rd_data, stream, output_buffer,
                   conn_vars, size_vars, coord_vars, host_size, host_changes,
                   poll_val, hist_vars>>

(***************************************************************************)
(* Frames a client sends.  decodes: the envelope's Data is base64 of the   *)
(* JSON of the inner message that Type names (and, for a Write, the inner  *)
(* Data is base64), so that every decode and parse of the receiver         *)
(* succeeds.                                                               *)
(***************************************************************************)
WriteIn(payload) ==
    [type |-> "Write", decodes |-> TRUE, data |-> payload, size |-> <<0, 0>>]
WinSizeIn(size) ==
    [type |-> "WinSize", decodes |-> TRUE, data |-> "", size |-> size]
\* a frame whose envelope parses and names the type, but whose Data is not
\* base64 or does not hold the JSON of the inner message
MalformedIn(type) ==
    [type |-> type, decodes |-> FALSE, data |-> "", size |-> <<0, 0>>]
\* a well-formed frame of a type a client has no business sending
UnknownIn == [type |-> "Headless", decodes |-> TRUE, data |-> "", size |-> <<0, 0>>]
\* a text message that is no TtyMessage: serde_json::from_str fails
BadEnvelopeIn == [type |-> "", decodes |-> FALSE, data |-> "", size |-> <<0, 0>>]

(***************************************************************************)
(* apply_resize, one step per lock it takes.                               *)
(***************************************************************************)
\* *current_size.lock().await = (cols, rows)
ApplySetSize(size) == SizeLockFree /\ current_size' = size

\* pty_master.lock().await.resize(new_size), its error logged
ApplyResizePty(size, ok, source) == PtyResize(size, ok, source)

\* an apply that announces only what the PTY has taken
ApplyAnnounce_ifResized(size) ==
    /\ rx' = IF pty_size = size THEN SendRx(AnnounceItem(size)) ELSE rx
    /\ lagged' = IF pty_size = size THEN SendLagged(AnnounceItem(size)) ELSE lagged

\* pty_tx.send("WINSIZE:{json}"), its error ignored
ApplyAnnounce(size) ==
    /\ rx' = SendRx(AnnounceItem(size))
    /\ lagged' = SendLagged(AnnounceItem(size))

(***************************************************************************)
(* handle_socket: receiver_task.                                           *)
(***************************************************************************)
\* whether a Write frame is ignored: if readonly { continue; }
IgnoresWrite_never == FALSE

IgnoresWrite == readonly

\* whether a WinSize frame is looked at: msg_type == "WinSize" && headless
TakesWinSize_always == TRUE

TakesWinSize == headless

\* process_resize_request up to its decision, under the last_resize_time
\* lock: apply now (and stamp the time) or store as pending
RateLimited == now - last_resize_time < MIN_RESIZE_INTERVAL

\* the number of frames received from clients 1..n
RECURSIVE TotalRcvd(_)
TotalRcvd(n) == IF n = 0 THEN 0 ELSE Len(rcvd[n]) + TotalRcvd(n - 1)

\* a receiver that gives up on the first frame it cannot use
KeepsReceiving_strict(c, f) ==
    [rcv_alive EXCEPT ![c] = f.decodes /\ f.type \in {"Write", "WinSize"}]

\* the body of the while-let loop has no break and no return: whatever the
\* message was, receiver_task goes on to the next one
KeepsReceiving(c, f) == rcv_alive

\* one text message from the client (frames: what a client may send)
RecvFrame(c, frames) ==
    /\ Running
    /\ rcv_alive[c]
    /\ ~broken[c]
    /\ rs_pc[c] = "idle"
    /\ TotalRcvd(NumClients) < MaxFrames
    /\ \E f \in frames :
         /\ rcvd' = [rcvd EXCEPT ![c] = Append(rcvd[c], f)]
         /\ rcv_alive' = KeepsReceiving(c, f)
         /\ IF f.type = "Write"
            THEN /\ pty_written' =
                      IF ~IgnoresWrite /\ f.decodes
                      THEN Append(pty_written, [src |-> "client", id |-> c, data |-> f.data])
                      ELSE pty_written
                 /\ UNCHANGED <<last_resize_time, rs_pc, rs_val, requests>>
            ELSE IF f.type = "WinSize" /\ TakesWinSize /\ f.decodes
                      /\ is_valid_terminal_size(f.size[1], f.size[2])
            THEN /\ requests' = Append(requests, f.size)
                 /\ rs_val' = [rs_val EXCEPT ![c] = f.size]
                 /\ IF RateLimited
                    THEN /\ rs_pc' = [rs_pc EXCEPT ![c] = "store"]
                         /\ UNCHANGED last_resize_time
                    ELSE /\ rs_pc' = [rs_pc EXCEPT ![c] = "setSize"]
                         /\ last_resize_time' = now
                 /\ UNCHANGED pty_written
            ELSE UNCHANGED <<pty_written, last_resize_time, rs_pc, rs_val, requests>>
    /\ UNCHANGED <<life_vars, readonly, headless, hub_vars, pc, sent, broken, snd_alive,
                   current_size, pty_size, pending_resize, now, next_tick, pp_pc, pp_val,
                   host_vars, resize_log, att, obs>>

\* *pending_resize.lock().await = Some((cols, rows))
ReqStore(c) ==
    /\ Running
    /\ rs_pc[c] = "store"
    /\ pending_resize' = <<rs_val[c]>>
    /\ rs_pc' = [rs_pc EXCEPT ![c] = "idle"]
    /\ UNCHANGED <<life_vars, readonly, headless, hub_vars, conn_vars, current_size, pty_size,
                   last_resize_time, now, next_tick, rs_val, pp_pc, pp_val,
                   host_vars, hist_vars>>

ReqSetSize(c) ==
    /\ Running
    /\ rs_pc[c] = "setSize"
    /\ ApplySetSize(rs_val[c])
    /\ rs_pc' = [rs_pc EXCEPT ![c] = "resizePty"]
    /\ UNCHANGED <<life_vars, readonly, headless, hub_vars, conn_vars, pty_size,
                   last_resize_time, pending_resize, now, next_tick, rs_val,
                   pp_pc, pp_val, host_vars, hist_vars>>

ReqResizePty(c, oks) ==
    /\ Running
    /\ rs_pc[c] = "resizePty"
    /\ \E ok \in oks : ApplyResizePty(rs_val[c], ok, "client")
    /\ rs_pc' = [rs_pc EXCEPT ![c] = "announce"]
    /\ UNCHANGED <<life_vars, readonly, headless, hub_vars, conn_vars, current_size,
                   last_resize_time, pending_resize, now, next_tick, rs_val,
                   pp_pc, pp_val, host_vars, requests, att, obs>>

ReqAnnounce(c) ==
    /\ Running
    /\ rs_pc[c] = "announce"
    /\ ApplyAnnounce(rs_val[c])
    /\ rs_pc' = [rs_pc EXCEPT ![c] = "idle"]
    /\ UNCHANGED <<life_vars, readonly, headless, rd_pc, rd_data, stream, output_buffer,
                   conn_vars, size_vars, now, next_tick, rs_val, pp_pc, pp_val,
                   host_vars, hist_vars>>

\* the client goes away: receiver.next() yields None, receiver_task ends,
\* the select! in handle_socket completes and handle_socket returns; the
\* sender task was spawned and runs on until a send of its own fails
RecvClose(c) ==
    /\ Running
    /\ rcv_alive[c]
    /\ rs_pc[c] = "idle"
    /\ rcv_alive' = [rcv_alive EXCEPT ![c] = FALSE]
    /\ broken' = [broken EXCEPT ![c] = TRUE]
    /\ pc' = [pc EXCEPT ![c] = "closed"]
    /\ UNCHANGED <<life_vars, readonly, headless, hub_vars, sent, snd_alive, rcvd,
                   pty_written, size_vars, coord_vars, host_vars, hist_vars>>

(***************************************************************************)
(* start_pending_resize_processor (headless mode only).                    *)
(***************************************************************************)
\* interval.tick(), then: let pending = *pending_resize.lock().await
ProcTick ==
    /\ Running
    /\ headless
    /\ pp_pc = "wait"
    /\ now >= next_tick
    /\ next_tick' = next_tick + CHECK_INTERVAL
    /\ IF pending_resize # <<>>
       THEN /\ pp_val' = pending_resize[1]
            /\ pp_pc' = "check"
       ELSE UNCHANGED <<pp_val, pp_pc>>
    /\ UNCHANGED <<life_vars, readonly, headless, hub_vars, conn_vars, size_vars, now,
                   rs_pc, rs_val, host_vars, hist_vars>>

\* let last_time = *last_resize_time.lock().await; the lock is released
\* before the comparison
ProcCheck ==
    /\ Running
    /\ pp_pc = "check"
    /\ pp_pc' = IF now - last_resize_time >= MIN_RESIZE_INTERVAL THEN "clear" ELSE "wait"
    /\ UNCHANGED <<life_vars, readonly, headless, hub_vars, conn_vars, size_vars, now, next_tick,
                   rs_pc, rs_val, pp_val, host_vars, hist_vars>>

\* *pending_resize.lock().await = None
ProcClear ==
    /\ Running
    /\ pp_pc = "clear"
    /\ pending_resize' = <<>>
    /\ pp_pc' = "stamp"
    /\ UNCHANGED <<life_vars, readonly, headless, hub_vars, conn_vars, current_size, pty_size,
                   last_resize_time, now, next_tick, rs_pc, rs_val, pp_val,
                   host_vars, hist_vars>>

\* *last_resize_time.lock().await = now
ProcStamp ==
    /\ Running
    /\ pp_pc = "stamp"
    /\ last_resize_time' = now
    /\ pp_pc' = "setSize"
    /\ UNCHANGED <<life_vars, readonly, headless, hub_vars, conn_vars, current_size, pty_size,
                   pending_resize, now, next_tick, rs_pc, rs_val, pp_val,
                   host_vars, hist_vars>>

ProcSetSize ==
    /\ Running
    /\ pp_pc = "setSize"
    /\ ApplySetSize(pp_val)
    /\ pp_pc' = "resizePty"
    /\ UNCHANGED <<life_vars, readonly, headless, hub_vars, conn_vars, pty_size,
                   last_resize_time, pending_resize, now, next_tick, rs_pc, rs_val,
                   pp_val, host_vars, hist_vars>>

ProcResizePty(oks) ==
    /\ Running
    /\ pp_pc = "resizePty"
    /\ \E ok \in oks : ApplyResizePty(pp_val, ok, "client")
    /\ pp_pc' = "announce"
    /\ UNCHANGED <<life_vars, readonly, headless, hub_vars, conn_vars, current_size,
                   last_resize_time, pending_resize, now, next_tick, rs_pc, rs_val,
                   pp_val, host_vars, requests, att, obs>>

ProcAnnounce ==
    /\ Running
    /\ pp_pc = "announce"
    /\ ApplyAnnounce(pp_val)
    /\ pp_pc' = "wait"
    /\ UNCHANGED <<life_vars, readonly, headless, rd_pc, rd_data, stream, output_buffer,
                   conn_vars, size_vars, now, next_tick, rs_pc, rs_val, pp_val,
                   host_vars, hist_vars>>

\* time passes, while no resize handler is in progress and no tick of the
\* processor's interval is due
Advance ==
    /\ Running
    /\ headless
    /\ now < MaxTime
    /\ now < next_tick
    /\ pp_pc = "wait"
    /\ \A c \in Clients : rs_pc[c] = "idle"
    /\ now' = IF now + TimeStep < next_tick THEN now + TimeStep ELSE next_tick
    /\ UNCHANGED <<life_vars, readonly, headless, hub_vars, conn_vars, size_vars, next_tick,
                   rs_pc, rs_val, pp_pc, pp_val, host_vars, hist_vars>>

(***************************************************************************)
(* RwShellServer::run: startup.  A step that fails makes run() return the  *)
(* error with `?`; main returns it and the process exits with status 1.    *)
(***************************************************************************)
\* everything that belongs to the serving process, untouched by startup
serve_state == <<rd_pc, rd_data, stream, output_buffer, rx, lagged, conn_vars,
                 last_resize_time, pending_resize, coord_vars, host_changes,
                 poll_pc, poll_val, hist_vars, stdin_pc, client>>

\* run() returns Err(..): nothing is restored on the way out
StartFails ==
    /\ phase' = "returned"
    /\ exit_status' = <<1>>

\* the initial size: --headless-cols/--headless-rows when headless,
\* get_terminal_size() otherwise (sizes: the values in scope)
StartSize(sizes) ==
    /\ phase = "size" /\ exit_status = <<>>
    /\ \E sz \in sizes :
         /\ init_size' = sz
         /\ host_size' = IF headless THEN host_size ELSE sz
    /\ phase' = "validate"
    /\ UNCHANGED <<readonly, headless, serve_state, current_size, pty_size, last_size,
                   pty_open, child, bound, termios, raw_mode, stop_vars>>

StartupValid_skip == TRUE

\* if !is_valid_terminal_size(cols, rows) { return Err(..) }
StartupValid == is_valid_terminal_size(init_size[1], init_size[2])

StartValidate ==
    /\ phase = "validate" /\ exit_status = <<>>
    /\ IF StartupValid
       THEN phase' = "openpty" /\ UNCHANGED exit_status
       ELSE StartFails
    /\ UNCHANGED <<readonly, headless, serve_state, size_vars, host_size, last_size,
                   init_size, pty_open, child, bound, termios, raw_mode,
                   cancelled, shutdown_sent, child_sent, mon_pc, sig_pc, timer,
                   rd_end, sigints, initiator>>

\* pty_system.openpty(PtySize { rows, cols, .. })?
StartOpenPty(oks) ==
    /\ phase = "openpty" /\ exit_status = <<>>
    /\ \E ok \in oks :
         IF ok
         THEN /\ pty_open' = TRUE
              /\ pty_size' = init_size
              /\ phase' = "spawn"
              /\ UNCHANGED exit_status
         ELSE /\ StartFails
              /\ UNCHANGED <<pty_open, pty_size>>
    /\ UNCHANGED <<readonly, headless, serve_state, current_size, host_size, last_size,
                   init_size, child, bound, termios, raw_mode,
                   cancelled, shutdown_sent, child_sent, mon_pc, sig_pc, timer,
                   rd_end, sigints, initiator>>

\* pty_pair.slave.spawn_command(cmd)?, then the AppState with current_size
StartSpawn(oks) ==
    /\ phase = "spawn" /\ exit_status = <<>>
    /\ \E ok \in oks :
         IF ok
         THEN /\ child' = "running"
              /\ current_size' = init_size
              /\ phase' = "raw"
              /\ UNCHANGED exit_status
         ELSE /\ StartFails
              /\ UNCHANGED <<child, current_size>>
    /\ UNCHANGED <<readonly, headless, serve_state, pty_size, host_size, last_size,
                   init_size, pty_open, bound, termios, raw_mode,
                   cancelled, shutdown_sent, child_sent, mon_pc, sig_pc, timer,
                   rd_end, sigints, initiator>>

\* setup_raw_terminal() for an interactive session; its failure is logged
\* and startup goes on with original_termios = None
StartRaw(oks) ==
    /\ phase = "raw" /\ exit_status = <<>>
    /\ \E ok \in (IF headless THEN {FALSE} ELSE oks) :
         /\ termios' = ok
         /\ raw_mode' = ok
    /\ phase' = "bind"
    /\ UNCHANGED <<readonly, headless, serve_state, size_vars, host_size, last_size,
                   init_size, pty_open, child, bound, stop_vars>>

\* TcpListener::bind(&self.args.listen).await?, then the tasks are spawned
\* (the size poller starts with last_size = (cols, rows)) and axum serves
StartBind(oks) ==
    /\ phase = "bind" /\ exit_status = <<>>
    /\ \E ok \in oks :
         IF ok
         THEN /\ bound' = TRUE
              /\ last_size' = init_size
              /\ phase' = "serving"
              /\ UNCHANGED exit_status
         ELSE /\ StartFails
              /\ UNCHANGED <<bound, last_size>>
    /\ UNCHANGED <<readonly, headless, serve_state, size_vars, host_size,
                   init_size, pty_open, child, termios, raw_mode,
                   cancelled, shutdown_sent, child_sent, mon_pc, sig_pc, timer,
                   rd_end, sigints, initiator>>

(***************************************************************************)
(* Shutdown: the child monitor, the reader's end of stream, the future     *)
(* shutdown_signal, the task it spawns to exit and interrupt signals.      *)
(***************************************************************************)
\* everything but the variables of shutdown and the reader's position
stop_frame == <<readonly, headless, rd_data, stream, output_buffer, rx, lagged,
                conn_vars, size_vars, coord_vars, host_vars, hist_vars,
                init_size, pty_open, bound, termios, stdin_pc, client>>

\* the threads of spawn_blocking run while the process has not exited, also
\* after run() has returned (the runtime waits for them)
Alive == phase \in {"serving", "returned"} /\ exit_status = <<>>

\* who set shutdown in motion, if nobody has yet
Initiated(who) == IF initiator = "none" THEN who ELSE initiator

\* the child process terminates
ChildExit ==
    /\ Alive
    /\ child = "running"
    /\ child' = "exited"
    /\ UNCHANGED <<stop_frame, rd_pc, phase, raw_mode, stop_vars>>

\* child.try_wait(): Ok(Some(status)) once the child has exited; otherwise
\* the monitor ends if the token is cancelled (and sleeps 100 ms if not)
MonPoll ==
    /\ Alive
    /\ mon_pc = "poll"
    /\ child = "exited" \/ cancelled
    /\ mon_pc' = IF child = "exited" THEN "send" ELSE "done"
    /\ UNCHANGED <<stop_frame, rd_pc, phase, child, raw_mode, cancelled, shutdown_sent,
                   child_sent, sig_pc, timer, rd_end, sigints, exit_status, initiator>>

\* let _ = child_shutdown_tx.send(())
MonSend ==
    /\ Alive
    /\ mon_pc = "send"
    /\ child_sent' = TRUE
    /\ initiator' = Initiated("child")
    /\ mon_pc' = "cancel"
    /\ UNCHANGED <<stop_frame, rd_pc, phase, child, raw_mode, cancelled, shutdown_sent,
                   sig_pc, timer, rd_end, sigints, exit_status>>

\* token_child.cancel()
MonCancel ==
    /\ Alive
    /\ mon_pc = "cancel"
    /\ cancelled' = TRUE
    /\ mon_pc' = "done"
    /\ UNCHANGED <<stop_frame, rd_pc, phase, child, raw_mode, shutdown_sent,
                   child_sent, sig_pc, timer, rd_end, sigints, exit_status, initiator>>

\* reader.read returns Ok(0): the slave side of the PTY is closed
ReaderEof ==
    /\ Alive
    /\ rd_pc = "read"
    /\ child = "exited"
    /\ rd_end' = "eof"
    /\ rd_pc' = "endSend"
    /\ UNCHANGED <<stop_frame, phase, child, raw_mode, cancelled, shutdown_sent,
                   child_sent, mon_pc, sig_pc, timer, sigints, exit_status, initiator>>

\* reader.read returns Err(e)
ReaderErr ==
    /\ Alive
    /\ rd_pc = "read"
    /\ rd_end' = "err"
    /\ rd_pc' = "endSend"
    /\ UNCHANGED <<stop_frame, phase, child, raw_mode, cancelled, shutdown_sent,
                   child_sent, mon_pc, sig_pc, timer, sigints, exit_status, initiator>>

\* if let Some(tx) = shutdown_tx.take() { let _ = tx.send(()); }
ReaderEndSend ==
    /\ Alive
    /\ rd_pc = "endSend"
    /\ shutdown_sent' = TRUE
    /\ initiator' = Initiated(rd_end)
    /\ rd_pc' = "endCancel"
    /\ UNCHANGED <<stop_frame, phase, child, raw_mode, cancelled, child_sent, mon_pc,
                   sig_pc, timer, rd_end, sigints, exit_status>>

\* token_clone.cancel()
ReaderEndCancel ==
    /\ Alive
    /\ rd_pc = "endCancel"
    /\ cancelled' = TRUE
    /\ rd_pc' = "endRestore"
    /\ UNCHANGED <<stop_frame, phase, child, raw_mode, shutdown_sent, child_sent,
                   mon_pc, sig_pc, timer, rd_end, sigints, exit_status, initiator>>

\* restore_terminal(termios) if original_termios is Some
Restored == IF termios THEN FALSE ELSE raw_mode

ReaderEndRestore ==
    /\ Alive
    /\ rd_pc = "endRestore"
    /\ raw_mode' = Restored
    /\ rd_pc' = "endExit"
    /\ UNCHANGED <<stop_frame, phase, child, cancelled, shutdown_sent, child_sent,
                   mon_pc, sig_pc, timer, rd_end, sigints, exit_status, initiator>>

EndStatus_err(end) == 1

\* std::process::exit(0) after Ok(0), std::process::exit(1) after Err(e)
EndStatus(end) == IF end = "eof" THEN 0 ELSE 1

ReaderEndExit ==
    /\ Alive
    /\ rd_pc = "endExit"
    /\ exit_status' = <<EndStatus(rd_end)>>
    /\ rd_pc' = "exited"
    /\ UNCHANGED <<stop_frame, phase, child, raw_mode, cancelled, shutdown_sent,
                   child_sent, mon_pc, sig_pc, timer, rd_end, sigints, initiator>>

\* shutdown_signal's select!: shutdown_rx or child_shutdown_rx is ready
SigWake ==
    /\ Running
    /\ sig_pc = "wait"
    /\ shutdown_sent \/ child_sent
    /\ sig_pc' = "cancel"
    /\ UNCHANGED <<stop_frame, rd_pc, phase, child, raw_mode, cancelled, shutdown_sent,
                   child_sent, mon_pc, timer, rd_end, sigints, exit_status, initiator>>

\* token_shutdown.cancel()
SigCancel ==
    /\ Running
    /\ sig_pc = "cancel"
    /\ cancelled' = TRUE
    /\ sig_pc' = IF headless THEN "arm" ELSE "restore"
    /\ UNCHANGED <<stop_frame, rd_pc, phase, child, raw_mode, shutdown_sent,
                   child_sent, mon_pc, timer, rd_end, sigints, exit_status, initiator>>

\* interactive: restore_terminal(termios) if original_termios is Some
SigRestore ==
    /\ Running
    /\ sig_pc = "restore"
    /\ raw_mode' = Restored
    /\ sig_pc' = "arm"
    /\ UNCHANGED <<stop_frame, rd_pc, phase, child, cancelled, shutdown_sent,
                   child_sent, mon_pc, timer, rd_end, sigints, exit_status, initiator>>

\* tokio::spawn(async { sleep(100 ms).await; std::process::exit(0) }); the
\* future shutdown_signal is complete and axum stops accepting
SigArm ==
    /\ Running
    /\ sig_pc = "arm"
    /\ timer' = TRUE
    /\ sig_pc' = "done"
    /\ UNCHANGED <<stop_frame, rd_pc, phase, child, raw_mode, cancelled, shutdown_sent,
                   child_sent, mon_pc, rd_end, sigints, exit_status, initiator>>

\* the sleep of the spawned task is over: std::process::exit(0)
TimerFire ==
    /\ Running
    /\ timer
    /\ exit_status' = <<0>>
    /\ UNCHANGED <<stop_frame, rd_pc, phase, child, raw_mode, cancelled, shutdown_sent,
                   child_sent, mon_pc, sig_pc, timer, rd_end, sigints, initiator>>

\* axum::serve(..).with_graceful_shutdown(shutdown_signal) completes once
\* the signal future is complete and no connection is left; run() returns
\* Ok(()) and main returns.  The runtime drops its async tasks (among them
\* the one that sleeps and exits) and waits for the blocking threads.
ServeReturn ==
    /\ Running
    /\ sig_pc = "done"
    /\ \A c \in Clients : pc[c] \in {"idle", "closed"} /\ ~snd_alive[c]
    /\ phase' = "returned"
    /\ timer' = FALSE
    /\ UNCHANGED <<stop_frame, rd_pc, child, raw_mode, cancelled, shutdown_sent,
                   child_sent, mon_pc, sig_pc, rd_end, sigints, exit_status, initiator>>

\* the host process gets SIGINT.  Headless: while shutdown_signal waits in
\* its select!, the branch of tokio::signal::ctrl_c() is taken; later the
\* handler that tokio installed swallows the signal.  Interactive: no handler
\* is ever installed (ctrl_c() is awaited in the headless branch only), so
\* the signal has its default disposition and ends the process.
HostSigint ==
    /\ Running
    /\ sigints < MaxSigints
    /\ sigints' = sigints + 1
    /\ IF headless
       THEN /\ sig_pc' = IF sig_pc = "wait" THEN "intCancel" ELSE sig_pc
            /\ initiator' = IF sig_pc = "wait" THEN Initiated("sigint") ELSE initiator
            /\ UNCHANGED exit_status
       ELSE /\ exit_status' = <<130>>
            /\ initiator' = Initiated("sigint")
            /\ UNCHANGED sig_pc
    /\ UNCHANGED <<stop_frame, rd_pc, phase, child, raw_mode, cancelled, shutdown_sent,
                   child_sent, mon_pc, timer, rd_end>>

\* headless, the ctrl_c branch: token_shutdown.cancel()
SigIntCancel ==
    /\ Running
    /\ sig_pc = "intCancel"
    /\ cancelled' = TRUE
    /\ sig_pc' = "intExit"
    /\ UNCHANGED <<stop_frame, rd_pc, phase, child, raw_mode, shutdown_sent,
                   child_sent, mon_pc, timer, rd_end, sigints, exit_status, initiator>>

\* headless, the ctrl_c branch: std::process::exit(0)
SigIntExit ==
    /\ Running
    /\ sig_pc = "intExit"
    /\ exit_status' = <<0>>
    /\ sig_pc' = "done"
    /\ UNCHANGED <<stop_frame, rd_pc, phase, child, raw_mode, cancelled, shutdown_sent,
                   child_sent, mon_pc, timer, rd_end, sigints, initiator>>

(***************************************************************************)
(* Specifications.                                                         *)
(***************************************************************************)
\* output fan-out and attach: the reader, connections that attach, forward
\* and break, and the host size poller; no chunk starts with the marker
NextHub ==
    \/ ReaderRead({FALSE})
    \/ ReaderCheck
    \/ ReaderPublish
    \/ ReaderBuffer
    \/ \E c \in Clients : Accept(c)
    \/ \E c \in Clients : HsWinSize(c, BOOLEAN)
    \/ \E c \in Clients : HsReadOnly(c, BOOLEAN)
    \/ \E c \in Clients : HsHeadless(c, BOOLEAN)
    \/ \E c \in Clients : HsDrain(c, BOOLEAN)
    \/ \E c \in Clients : SenderStep(c, BOOLEAN)
    \/ HostResize({<<100, 30>>})
    \/ PollTick
    \/ PollSetSize
    \/ PollResizePty({TRUE})
    \/ PollAnnounce

Spec == Init /\ [][NextHub]_vars

\* output fan-out and attach with every transport up: the reader and
\* connections that attach and forward; no chunk starts with the marker
NextReplay ==
    \/ ReaderRead({FALSE})
    \/ ReaderCheck
    \/ ReaderPublish
    \/ ReaderBuffer
    \/ \E c \in Clients : Accept(c)
    \/ \E c \in Clients : HsWinSize(c, {TRUE})
    \/ \E c \in Clients : HsReadOnly(c, {TRUE})
    \/ \E c \in Clients : HsHeadless(c, {TRUE})
    \/ \E c \in Clients : HsDrain(c, {TRUE})
    \/ \E c \in Clients : SenderStep(c, {TRUE})

SpecReplay == Init /\ [][NextReplay]_vars

\* the same, with PTY output that may start with the bytes "WINSIZE:"
NextMarked ==
    \/ ReaderRead(BOOLEAN)
    \/ ReaderCheck
    \/ ReaderPublish
    \/ ReaderBuffer
    \/ \E c \in Clients : Accept(c)
    \/ \E c \in Clients : HsWinSize(c, {TRUE})
    \/ \E c \in Clients : HsReadOnly(c, {TRUE})
    \/ \E c \in Clients : HsHeadless(c, {TRUE})
    \/ \E c \in Clients : HsDrain(c, {TRUE})
    \/ \E c \in Clients : SenderStep(c, {TRUE})

SpecMarked == Init /\ [][NextMarked]_vars

(***************************************************************************)
(* What a client is sent.                                                  *)
(***************************************************************************)
\* the frames a connection sent after its handshake
LiveFrames(c) ==
    IF att[c].done
    THEN SubSeq(sent[c], (IF att[c].replay # <<>> THEN 5 ELSE 4), Len(sent[c]))
    ELSE <<>>

\* the payloads of the Write frames among fs, concatenated
RECURSIVE WriteData(_)
WriteData(fs) ==
    IF fs = <<>> THEN <<>>
    ELSE (IF Head(fs).type = "Write" THEN Base64Decode(Head(fs).data) ELSE <<>>) \o WriteData(Tail(fs))

\* v is a run of consecutive bytes of the PTY output stream
IsRun(v) == \A i \in 1..(Len(v) - 1) : v[i + 1].lo = v[i].hi + 1

\* a run as one segment
Coalesce(v) == IF v = <<>> THEN <<>> ELSE <<Seg(v[1].lo, v[Len(v)].hi)>>

\* the last min(total, MAX_BUFFER_SIZE) bytes of the first total bytes
LastBytes(total) ==
    IF total = 0 THEN <<>>
    ELSE <<Seg((IF total > MAX_BUFFER_SIZE THEN total - MAX_BUFFER_SIZE + 1 ELSE 1), total)>>

(***************************************************************************)
(* C1.  The frames sent to a client begin with WinSize (the Current size   *)
(* when it is sent), ReadOnly and Headless (the session flags) and, iff    *)
(* the replay buffer is not empty at the drain, one Write with the whole   *)
(* buffer; a broadcast frame is sent only after that.  As a property of    *)
(* every step: whatever a step sends to c is the frame c's position in the *)
(* handshake calls for, a position is left forward only by sending its     *)
(* frame, and a frame from the channel is sent only once the drain is      *)
(* done.                                                                   *)
(***************************************************************************)
C1_Step(c) ==
    /\ pc[c] = "idle" => sent[c] = <<>>
    /\ pc[c] = "sendWinSize" =>
         /\ sent[c] = <<>>
         /\ sent'[c] # sent[c] \/ pc'[c] = "sendReadOnly" =>
              sent'[c] = <<WinSizeFrame(current_size)>> /\ pc'[c] = "sendReadOnly"
    /\ pc[c] = "sendReadOnly" =>
         /\ Len(sent[c]) = 1
         /\ sent'[c] # sent[c] \/ pc'[c] = "sendHeadless" =>
              sent'[c] = Append(sent[c], ReadOnlyFrame(readonly)) /\ pc'[c] = "sendHeadless"
    /\ pc[c] = "sendHeadless" =>
         /\ Len(sent[c]) = 2
         /\ sent'[c] # sent[c] \/ pc'[c] = "drain" =>
              sent'[c] = Append(sent[c], HeadlessFrame(headless)) /\ pc'[c] = "drain"
    /\ pc[c] = "drain" =>
         /\ Len(sent[c]) = 3
         /\ sent'[c] # sent[c] \/ pc'[c] = "active" =>
              /\ sent'[c] = IF output_buffer # <<>>
                            THEN Append(sent[c], WriteFrame(output_buffer))
                            ELSE sent[c]
              /\ pc'[c] = "active"
    /\ pc[c] \in {"active", "closed"} /\ sent'[c] # sent[c] =>
         /\ att[c].done
         /\ Len(sent'[c]) = Len(sent[c]) + 1
         /\ SubSeq(sent'[c], 1, Len(sent[c])) = sent[c]

C1_AttachSequence == [][\A c \in Clients : C1_Step(c)]_vars

\* a client attached after a resize, with a replay and a live frame after it
C1_Witness ==
    \E c \in Clients :
        /\ att[c].done
        /\ att[c].replay # <<>>
        /\ Len(sent[c]) >= 5
        /\ sent[c][1] = WinSizeFrame(<<100, 30>>)
        /\ sent[c][2] = ReadOnlyFrame(readonly)
        /\ sent[c][3] = HeadlessFrame(headless)
        /\ sent[c][4] = WriteFrame(att[c].replay)

(***************************************************************************)
(* C2.  The chunks a client receives as live Write frames are a run of     *)
(* consecutive chunks of the PTY output, in read order, that starts no     *)
(* later than the first chunk read after it subscribed.                    *)
(***************************************************************************)
C2_OrderPreserved ==
    \A c \in Clients :
        LET d == WriteData(LiveFrames(c))
        IN  /\ IsRun(d)
            /\ d # <<>> => d[1].lo <= att[c].sub_total + 1

(***************************************************************************)
(* C3.  The replay payload of a client followed by the payloads of its     *)
(* live Write frames is a run of consecutive bytes of the PTY output: no   *)
(* chunk in between is missing.                                            *)
(***************************************************************************)
C3_ContiguousSuffix ==
    \A c \in Clients :
        att[c].done => IsRun(att[c].replay \o WriteData(LiveFrames(c)))

(***************************************************************************)
(* C4.  The first client to attach is replayed, in one Write frame that    *)
(* precedes its live frames, exactly the last min(|B|, 1024) bytes of the  *)
(* output B for which the reader saw no subscriber; the replay buffer      *)
(* never holds more than 1024 bytes.                                       *)
(***************************************************************************)
C4_ReplayCorrect ==
    /\ VecLen(output_buffer) <= MAX_BUFFER_SIZE
    /\ att[1].done =>
         /\ IsRun(att[1].replay)
         /\ Coalesce(att[1].replay) = LastBytes(att[1].due)
         /\ att[1].replay # <<>> => sent[1][4] = WriteFrame(att[1].replay)

(***************************************************************************)
(* C5.  A client that attaches after another client drained the replay     *)
(* buffer, the reader having seen zero subscribers for no chunk since      *)
(* that drain, is sent no replay.                                          *)
(***************************************************************************)
C5_ReplayCleared ==
    \A c \in Clients : att[c].clean => att[c].replay = <<>>

(***************************************************************************)
(* Client input: connections that attach (every transport up) and send     *)
(* Write and WinSize frames, the host's stdin and the host terminal with   *)
(* its size poller.  No time passes.                                       *)
(***************************************************************************)
InputFrames == {WriteIn("X"), WinSizeIn(<<100, 30>>), WinSizeIn(<<9, 30>>)}

NextInput ==
    \/ \E c \in Clients : Accept(c)
    \/ \E c \in Clients : HsWinSize(c, {TRUE})
    \/ \E c \in Clients : HsReadOnly(c, {TRUE})
    \/ \E c \in Clients : HsHeadless(c, {TRUE})
    \/ \E c \in Clients : HsDrain(c, {TRUE})
    \/ \E c \in Clients : RecvFrame(c, InputFrames)
    \/ \E c \in Clients : ReqStore(c)
    \/ StdinForward
    \/ HostResize({<<100, 30>>, <<111, 30>>})
    \/ PollTick
    \/ PollSetSize
    \/ PollResizePty({TRUE})
    \/ PollAnnounce

SpecInput == Init /\ [][NextInput]_vars

(***************************************************************************)
(* Resizes: connections that attach (every transport up) and send WinSize  *)
(* frames, the resize coordinator with its clock, and the host terminal    *)
(* with its size poller.                                                   *)
(***************************************************************************)
ResizeFrames == {WinSizeIn(s) : s \in {<<100, 30>>, <<111, 30>>, <<9, 30>>, <<80, 1001>>}}

NextResize ==
    \/ \E c \in Clients : Accept(c)
    \/ \E c \in Clients : HsWinSize(c, {TRUE})
    \/ \E c \in Clients : HsReadOnly(c, {TRUE})
    \/ \E c \in Clients : HsHeadless(c, {TRUE})
    \/ \E c \in Clients : HsDrain(c, {TRUE})
    \/ \E c \in Clients : SenderStep(c, {TRUE})
    \/ \E c \in Clients : RecvFrame(c, ResizeFrames)
    \/ \E c \in Clients : ReqStore(c)
    \/ \E c \in Clients : ReqSetSize(c)
    \/ \E c \in Clients : ReqResizePty(c, {TRUE})
    \/ \E c \in Clients : ReqAnnounce(c)
    \/ ProcTick
    \/ ProcCheck
    \/ ProcClear
    \/ ProcStamp
    \/ ProcSetSize
    \/ ProcResizePty({TRUE})
    \/ ProcAnnounce
    \/ Advance
    \/ HostResize({<<100, 30>>, <<9, 30>>})
    \/ PollTick
    \/ PollSetSize
    \/ PollResizePty({TRUE})
    \/ PollAnnounce

\* the server started without --readonly
InitResize == Init /\ ~readonly

SpecResize == InitResize /\ [][NextResize]_vars

(***************************************************************************)
(* Claims about client input and resizes.                                  *)
(***************************************************************************)
\* the step is the receipt by connection c of a frame of type ty
Receives(c, ty) ==
    /\ Len(rcvd'[c]) = Len(rcvd[c]) + 1
    /\ rcvd'[c][Len(rcvd'[c])].type = ty

\* the frame that the step's receipt delivered
Received(c) == rcvd'[c][Len(rcvd'[c])]

\* whether pty.resize was called by a client's request
ClientResizes == {i \in DOMAIN resize_log : resize_log[i].src = "client"}

\* C6: while the session is read-only, a Write frame from any client puts
\* none of its bytes on the PTY writer (the PTY never holds bytes a client
\* sent), and it leaves the connection as it was: both its tasks keep
\* running and its position is unchanged.
C6_Step(c) ==
    (readonly /\ Receives(c, "Write")) =>
        /\ pty_written' = pty_written
        /\ rcv_alive'[c] /\ snd_alive'[c] = snd_alive[c]
        /\ pc'[c] = pc[c] /\ broken'[c] = broken[c]

C6_ReadOnlyEnforced ==
    /\ [](readonly => \A i \in DOMAIN pty_written : pty_written[i].src # "client")
    /\ [][\A c \in Clients : C6_Step(c)]_vars

\* a read-only session whose client sent a Write and whose connection is
\* still open
C6_Witness ==
    /\ readonly
    /\ \E c \in Clients :
         /\ \E i \in DOMAIN rcvd[c] : rcvd[c][i] = WriteIn("X")
         /\ pc[c] = "active" /\ rcv_alive[c] /\ snd_alive[c]

\* C7: while the session is not headless, a WinSize frame from any client
\* leaves Current size, the PTY size, the pending slot and the last-resize
\* timestamp unchanged, publishes nothing and hands nothing to the
\* coordinator; so no client request ever reaches the PTY or the slot.
C7_Step(c) ==
    (~headless /\ Receives(c, "WinSize")) =>
        /\ UNCHANGED <<current_size, pty_size, pending_resize, last_resize_time>>
        /\ UNCHANGED <<rx, resize_log, requests, rs_pc>>

C7_HeadlessGating ==
    /\ [](~headless => /\ pending_resize = <<>>
                       /\ last_resize_time = 0
                       /\ ClientResizes = {})
    /\ [][\A c \in Clients : C7_Step(c)]_vars

\* an interactive session whose client sent a valid WinSize, while the size
\* is still the one the host terminal gave
C7_Witness ==
    /\ ~headless
    /\ \E c \in Clients : \E i \in DOMAIN rcvd[c] : rcvd[c][i] = WinSizeIn(<<100, 30>>)
    /\ current_size = <<111, 30>>
    /\ pty_size = <<111, 30>>

\* the sizes the specification calls invalid
OutOfRange(size) ==
    \/ size[1] < MIN_COLS \/ size[1] > MAX_COLS
    \/ size[2] < MIN_ROWS \/ size[2] > MAX_ROWS

\* C8: the PTY is never resized to an out-of-range size and Current size is
\* never one, whatever WinSize frames clients send, whatever the pending
\* slot dispatches and however the host terminal changes; and a WinSize
\* frame with an out-of-range size changes no state.
C8_Step(c) ==
    (Receives(c, "WinSize") /\ OutOfRange(Received(c).size)) =>
        UNCHANGED <<size_vars, coord_vars, hub_vars, host_vars, pty_written,
                    resize_log, requests>>

C8_ResizeValidation ==
    /\ [](/\ ~OutOfRange(current_size)
          /\ ~OutOfRange(pty_size)
          /\ \A i \in DOMAIN resize_log : ~OutOfRange(resize_log[i].size)
          /\ pending_resize # <<>> => ~OutOfRange(pending_resize[1]))
    /\ [][\A c \in Clients : C8_Step(c)]_vars

\* a headless session that received an out-of-range WinSize and has applied
\* a valid one
C8_Witness ==
    /\ headless
    /\ \E c \in Clients : \E i \in DOMAIN rcvd[c] : rcvd[c][i] = WinSizeIn(<<9, 30>>)
    /\ ClientResizes # {}
    /\ current_size = <<100, 30>>

\* C9: in headless mode any two client-initiated resizes of the PTY are at
\* least 100 ms apart, under every interleaving of the connections'
\* requests with the processor's tick.
C9_RateLimit ==
    headless =>
        \A i, j \in ClientResizes :
            i < j => resize_log[j].t - resize_log[i].t >= MIN_RESIZE_INTERVAL

\* no request is being handled, none is pending
ResizeQuiescent ==
    /\ pp_pc = "wait"
    /\ \A c \in Clients : rs_pc[c] = "idle"
    /\ pending_resize = <<>>

\* the size of the latest WinSize frame sent to c
LastWinSize(c) ==
    LET ws == {i \in DOMAIN sent[c] : sent[c][i].type = "WinSize"}
        i == CHOOSE k \in ws : \A m \in ws : m <= k
    IN  <<sent[c][i].cols, sent[c][i].rows>>

\* C10: in headless mode, when no request is in progress or pending (so
\* that nothing more is applied unless another request arrives), Current
\* size and the PTY size are the last valid WinSize a client sent, and every
\* attached client that has nothing left to forward was last told that size.
C10_LastRequestApplied ==
    (headless /\ requests # <<>> /\ ResizeQuiescent) =>
        /\ current_size = requests[Len(requests)]
        /\ pty_size = requests[Len(requests)]
        /\ \A c \in Clients :
             (pc[c] = "active" /\ snd_alive[c] /\ rx[c] = <<>>) =>
                 LastWinSize(c) = requests[Len(requests)]

(***************************************************************************)
(* Claims about announcements, isolation and the frames sent.              *)
(***************************************************************************)
\* the step is the last one of an apply_resize (its pty_tx.send) for size
Announces(size) ==
    \/ \E c \in Clients : /\ rs_pc[c] = "announce" /\ rs_pc'[c] = "idle"
                          /\ rs_val[c] = size
    \/ /\ pp_pc = "announce" /\ pp_pc' = "wait"
       /\ pp_val = size

\* the step hands connection c's transport one more frame, built from the
\* channel item at the head of its queue
Forwards(c) ==
    /\ snd_alive[c] /\ rx[c] # <<>>
    /\ Len(sent'[c]) = Len(sent[c]) + 1
    /\ rx'[c] = Tail(rx[c])

\* C11: every apply_resize publishes one WinSize announcement of its size to
\* every subscribed connection, whether or not the size is the one applied
\* and announced just before, and the sender task of each connection
\* forwards every announcement as a WinSize frame of that size: two applies
\* of one size give every attached client two announcements.
C11_Step ==
    /\ \A size \in ValidSizes :
         Announces(size) =>
             \A c \in Clients :
                 Subscribed(c) => rx'[c] = Append(rx[c], AnnounceItem(size))
    /\ \A c \in Clients :
         (Forwards(c) /\ Head(rx[c]).origin = "resize") =>
             sent'[c] = Append(sent[c], WinSizeFrame(Head(rx[c]).size))

C11_AnnounceEveryApply == [][C11_Step]_vars

\* the PTY was resized to (100, 30) twice in succession, and a client that
\* was attached throughout got two announcements of (100, 30) in a row
C11_Witness ==
    /\ Len(resize_log) = 2
    /\ resize_log[1].size = <<100, 30>> /\ resize_log[2].size = <<100, 30>>
    /\ \E c \in Clients :
         /\ Len(sent[c]) >= 5
         /\ sent[c][Len(sent[c]) - 1] = WinSizeFrame(<<100, 30>>)
         /\ sent[c][Len(sent[c])] = WinSizeFrame(<<100, 30>>)
         /\ rx[c] = <<>>

(***************************************************************************)
(* Isolation: the reader, connections that attach and forward, any send    *)
(* of which may fail, and clients that go away.                            *)
(***************************************************************************)
NextIsolate ==
    \/ ReaderRead({FALSE})
    \/ ReaderCheck
    \/ ReaderPublish
    \/ ReaderBuffer
    \/ \E c \in Clients : Accept(c)
    \/ \E c \in Clients : HsWinSize(c, BOOLEAN)
    \/ \E c \in Clients : HsReadOnly(c, BOOLEAN)
    \/ \E c \in Clients : HsHeadless(c, BOOLEAN)
    \/ \E c \in Clients : HsDrain(c, BOOLEAN)
    \/ \E c \in Clients : SenderStep(c, BOOLEAN)
    \/ \E c \in Clients : RecvClose(c)

SpecIsolate == Init /\ [][NextIsolate]_vars

\* the raw chunks queued for connection c, as byte segments
RECURSIVE QueuedData(_)
QueuedData(q) ==
    IF q = <<>> THEN <<>>
    ELSE (IF Head(q).origin = "pty" THEN <<Seg(Head(q).lo, Head(q).hi)>> ELSE <<>>)
         \o QueuedData(Tail(q))

\* connection c is attached and its own transport is up
Healthy(c) == pc[c] = "active" /\ ~broken[c] /\ ~lagged[c]

\* C12: a connection closes only when its own transport failed or its own
\* client went away; every other attached connection still has its sender
\* task, and the chunks it was sent and the ones queued for it are, in read
\* order and without a gap, all the chunks read since it subscribed (but for
\* the one the reader still holds); the shutdown token stays as it is and
\* the process runs on.
C12_Isolation ==
    /\ \A c \in Clients :
         (pc[c] = "closed" \/ (att[c].done /\ ~snd_alive[c])) => broken[c]
    /\ \A c \in Clients :
         Healthy(c) =>
             LET d == WriteData(LiveFrames(c)) \o QueuedData(rx[c])
             IN  /\ snd_alive[c]
                 /\ IsRun(d)
                 /\ \A i \in DOMAIN stream :
                      stream[i].lo > att[c].sub_total =>
                          \/ \E k \in DOMAIN d : d[k] = Seg(stream[i].lo, stream[i].hi)
                          \/ /\ i = Len(stream)
                             /\ rd_pc \in {"check", "publish"}
    /\ ~cancelled
    /\ exit_status = <<>>

\* the first client's transport failed after one live chunk; the second
\* client, attached as well, has received every chunk up to the last one
C12_Witness ==
    /\ pc[1] = "closed" /\ broken[1] /\ ~snd_alive[1]
    /\ Len(WriteData(LiveFrames(1))) = 1
    /\ Healthy(2)
    /\ Len(stream) = MaxChunks
    /\ Len(WriteData(LiveFrames(2))) >= 2
    /\ WriteData(LiveFrames(2))[Len(WriteData(LiveFrames(2)))].hi = StreamTotal

(***************************************************************************)
(* The end of the session.  SpecExit: a serving process whose clients      *)
(* attach, whose child exits and whose PTY then reaches end of file; the   *)
(* steps of the program are taken sooner or later, and the PTY of a child  *)
(* that has exited reports end of file sooner or later.  SpecStop: the     *)
(* same without the fairness, with PTY read errors.  SpecLife: the whole   *)
(* life of the process from the entry of run(), with failures of startup,  *)
(* PTY read errors and interrupt signals.                                  *)
(***************************************************************************)
NextExit ==
    \/ \E c \in Clients : Accept(c)
    \/ \E c \in Clients : HsWinSize(c, {TRUE})
    \/ \E c \in Clients : HsReadOnly(c, {TRUE})
    \/ \E c \in Clients : HsHeadless(c, {TRUE})
    \/ \E c \in Clients : HsDrain(c, {TRUE})
    \/ \E c \in Clients : RecvClose(c)
    \/ ChildExit
    \/ MonPoll
    \/ MonSend
    \/ MonCancel
    \/ ReaderEof
    \/ ReaderEndSend
    \/ ReaderEndCancel
    \/ ReaderEndRestore
    \/ ReaderEndExit
    \/ SigWake
    \/ SigCancel
    \/ SigRestore
    \/ SigArm
    \/ TimerFire
    \/ ServeReturn

FairExit ==
    /\ WF_vars(MonPoll) /\ WF_vars(MonSend) /\ WF_vars(MonCancel)
    /\ WF_vars(ReaderEof)
    /\ WF_vars(ReaderEndSend) /\ WF_vars(ReaderEndCancel)
    /\ WF_vars(ReaderEndRestore) /\ WF_vars(ReaderEndExit)
    /\ WF_vars(SigWake) /\ WF_vars(SigCancel) /\ WF_vars(SigRestore)
    /\ WF_vars(SigArm) /\ WF_vars(TimerFire)

SpecExit == Init /\ [][NextExit]_vars /\ FairExit

NextStop ==
    \/ \E c \in Clients : Accept(c)
    \/ \E c \in Clients : HsWinSize(c, {TRUE})
    \/ \E c \in Clients : HsReadOnly(c, {TRUE})
    \/ \E c \in Clients : HsHeadless(c, {TRUE})
    \/ \E c \in Clients : HsDrain(c, {TRUE})
    \/ \E c \in Clients : RecvClose(c)
    \/ ChildExit
    \/ MonPoll
    \/ MonSend
    \/ MonCancel
    \/ ReaderEof
    \/ ReaderErr
    \/ ReaderEndSend
    \/ ReaderEndCancel
    \/ ReaderEndRestore
    \/ ReaderEndExit
    \/ SigWake
    \/ SigCancel
    \/ SigRestore
    \/ SigArm
    \/ TimerFire
    \/ ServeReturn

SpecStop == Init /\ [][NextStop]_vars

NextLife ==
    \/ StartSize(AllSizes)
    \/ StartValidate
    \/ StartOpenPty(BOOLEAN)
    \/ StartSpawn(BOOLEAN)
    \/ StartRaw(BOOLEAN)
    \/ StartBind(BOOLEAN)
    \/ HostSigint
    \/ SigIntCancel
    \/ SigIntExit
    \/ NextStop

SpecLife == InitStartup /\ [][NextLife]_vars

(***************************************************************************)
(* Claims about the end of the session and about startup.                  *)
(***************************************************************************)
\* C13: once the child process has exited, the process exits sooner or
\* later, in headless and in interactive mode; whenever it has exited, its
\* status is 0 and the shutdown token was cancelled before.  (The exit of
\* the process is what closes the transport of every connected client.)
C13_ChildExitShutsDown ==
    /\ [](exit_status # <<>> => (exit_status = <<0>> /\ cancelled))
    /\ (child = "exited") ~> (exit_status # <<>>)

\* the child exited with a client attached, the monitor set shutdown in
\* motion, and the process has exited with status 0
C13_Witness ==
    /\ child = "exited"
    /\ initiator = "child"
    /\ cancelled
    /\ exit_status = <<0>>
    /\ \E c \in Clients : pc[c] = "active"

\* C14: the exit status is 0 whenever shutdown was set in motion by the
\* termination of the child or by the end of the PTY stream, and it is 1,
\* with the token cancelled before, whenever the PTY read has returned an
\* error: no interleaving of the monitor, the reader and shutdown_signal
\* makes a read error end in status 0.
C14_ExitStatus ==
    exit_status # <<>> =>
        /\ initiator \in {"child", "eof"} => exit_status = <<0>>
        /\ rd_end = "err" => (exit_status = <<1>> /\ cancelled)

\* C15: if the initial size (the --headless-cols/--headless-rows values
\* when headless, the detected host terminal size otherwise) is not valid,
\* startup fails before a PTY is opened, a child is spawned or a listener is
\* bound, and the process exits with a non-zero status.
C15_InvalidInitialSize ==
    (phase # "size" /\ OutOfRange(init_size)) =>
        /\ ~pty_open
        /\ child = "none"
        /\ ~bound
        /\ phase \in {"validate", "returned"}
        /\ phase = "returned" => (exit_status # <<>> /\ exit_status # <<0>>)

\* startup has failed on an initial size that is out of range
C15_Witness ==
    /\ OutOfRange(init_size)
    /\ phase = "returned"
    /\ exit_status = <<1>>
    /\ ~pty_open /\ child = "none" /\ ~bound

\* C16: in interactive mode, once raw mode is installed on the controlling
\* terminal, the original attributes are restored on every exit path: the
\* process never terminates with the terminal still in raw mode.
C16_TerminalRestored ==
    exit_status # <<>> => ~raw_mode

\* C17: a host interrupt signal cancels the shutdown token and ends the
\* process only when the session is headless; in interactive mode a host
\* SIGINT never cancels the token and never terminates the session.
C17_SigintOnlyHeadless ==
    [][(sigints' > sigints /\ ~headless) =>
          (exit_status' = exit_status /\ cancelled' = cancelled)]_vars

(***************************************************************************)
(* Claims about the frames of the sender task.                             *)
(***************************************************************************)
\* C18: every raw PTY chunk published on the channel is delivered to a
\* subscriber as a Write frame whose decoded payload is the chunk, whatever
\* bytes it contains; only the WinSize announcements of the resize paths
\* are forwarded verbatim.
C18_Step(c) ==
    (Forwards(c) /\ Head(rx[c]).origin = "pty") =>
        LET f == sent'[c][Len(sent'[c])]
        IN  /\ f.type = "Write"
            /\ Base64Decode(f.data) = <<Seg(Head(rx[c]).lo, Head(rx[c]).hi)>>

C18_RawChunksAsWrite == [][\A c \in Clients : C18_Step(c)]_vars

\* C19: over the lifetime of a connection the server sends the client
\* exactly one ReadOnly and exactly one Headless frame, both during attach
\* and each with the session's configured flag; nothing later makes it send
\* another.
FramesOfType(fs, type) == {i \in 1..Len(fs) : fs[i].type = type}

C19_FlagsOnceAtAttach ==
    \A c \in Clients :
        /\ FramesOfType(sent[c], "ReadOnly") \subseteq {2}
        /\ FramesOfType(sent[c], "Headless") \subseteq {3}
        /\ att[c].done =>
              /\ sent[c][2] = ReadOnlyFrame(readonly)
              /\ sent[c][3] = HeadlessFrame(headless)

\* C20: in every Write frame the server emits, the replay frame and each
\* live frame, Size is the number of bytes that decoding Data gives.
C20_SizeIsDecodedLength ==
    \A c \in Clients : \A i \in FramesOfType(sent[c], "Write") :
        /\ sent[c][i].size = VecLen(Base64Decode(sent[c][i].data))
        /\ sent[c][i].size = Base64DecodedLen(sent[c][i].data)

(***************************************************************************)
(* Claims about the replay buffer and the resize apply.                    *)
(***************************************************************************)
\* C21: in every reachable state the replay buffer holds a run of
\* consecutive bytes of the PTY output read so far, ending where output was
\* last buffered: no byte inside it is missing, also after a client
\* subscribed and failed its handshake before the drain, and after a client
\* attached and detached.
C21_BufferContiguous ==
    /\ IsRun(output_buffer)
    /\ output_buffer # <<>> => output_buffer[Len(output_buffer)].hi <= StreamTotal

\* no apply_resize (nor the poller's copy of it) is between its first and
\* its last step
NoApplyInProgress ==
    /\ pp_pc \notin {"setSize", "resizePty", "announce"}
    /\ \A c \in Clients : rs_pc[c] \notin {"setSize", "resizePty", "announce"}
    /\ poll_pc \notin {"setSize", "resizePty", "announce"}

\* C22: the apply procedure behaves as one atomic sequence: whenever no
\* apply is in progress, Current size is the size most recently applied to
\* the PTY, also when two applies run concurrently.
C22_ApplyAtomic ==
    (NoApplyInProgress /\ resize_log # <<>>) =>
        /\ current_size = resize_log[Len(resize_log)].size
        /\ current_size = pty_size

\* C23: no attached client is left with a stale size: once every apply has
\* completed and a connected client has forwarded all that was queued for
\* it, the last WinSize frame it was sent (in the handshake or as an
\* announcement) is Current size, however attach and applies interleave.
C23_NoStaleSize ==
    NoApplyInProgress =>
        \A c \in Clients :
            (pc[c] = "active" /\ snd_alive[c] /\ ~broken[c] /\ ~lagged[c] /\ rx[c] = <<>>) =>
                LastWinSize(c) = current_size

(***************************************************************************)
(* Resizes whose call to the PTY may fail: connections that attach (every  *)
(* transport up) and send valid WinSize frames, the resize coordinator     *)
(* with its clock, and the host terminal with its size poller.             *)
(***************************************************************************)
NextSwallow ==
    \/ \E c \in Clients : Accept(c)
    \/ \E c \in Clients : HsWinSize(c, {TRUE})
    \/ \E c \in Clients : HsReadOnly(c, {TRUE})
    \/ \E c \in Clients : HsHeadless(c, {TRUE})
    \/ \E c \in Clients : HsDrain(c, {TRUE})
    \/ \E c \in Clients : SenderStep(c, {TRUE})
    \/ \E c \in Clients : RecvFrame(c, {WinSizeIn(<<100, 30>>)})
    \/ \E c \in Clients : ReqStore(c)
    \/ \E c \in Clients : ReqSetSize(c)
    \/ \E c \in Clients : ReqResizePty(c, BOOLEAN)
    \/ \E c \in Clients : ReqAnnounce(c)
    \/ ProcTick
    \/ ProcCheck
    \/ ProcClear
    \/ ProcStamp
    \/ ProcSetSize
    \/ ProcResizePty(BOOLEAN)
    \/ ProcAnnounce
    \/ Advance
    \/ HostResize({<<100, 30>>})
    \/ PollTick
    \/ PollSetSize
    \/ PollResizePty(BOOLEAN)
    \/ PollAnnounce

SpecSwallow == InitResize /\ [][NextSwallow]_vars

\* the step is a call of pty.resize(size) that fails
ResizeFails(size) ==
    /\ Len(resize_log') = Len(resize_log) + 1
    /\ resize_log'[Len(resize_log')].size = size
    /\ ~resize_log'[Len(resize_log')].ok

\* C24: when the PTY resize call of an apply fails, the error is swallowed.
\* The failing call leaves Current size at the requested size that the
\* apply has stored, the apply goes on to publish its WinSize announcement
\* to every attached client, and neither the requesting connection nor the
\* session is terminated.
C24_Step(c) ==
    /\ (rs_pc[c] = "resizePty" /\ rs_pc'[c] # "resizePty" /\ ResizeFails(rs_val[c])) =>
          /\ rs_pc'[c] = "announce"
          /\ UNCHANGED <<current_size, pty_size, pc, snd_alive, rcv_alive, broken,
                         life_vars>>
    /\ (rs_pc[c] = "announce" /\ rs_pc'[c] = "idle") =>
          \A d \in Clients :
              Subscribed(d) =>
                  (rx'[d] # <<>> /\ rx'[d][Len(rx'[d])] = AnnounceItem(rs_val[c]))

C24_ResizeErrorSwallowed ==
    /\ [][\A c \in Clients : C24_Step(c)]_vars
    /\ []((NoApplyInProgress /\ Len(resize_log) = 1) =>
             current_size = resize_log[1].size)

\* the one resize call made so far came from a client's request and failed;
\* the apply is complete, Current size is the requested size, the PTY has
\* kept its size, and the requesting connection, still attached, was sent
\* the announcement
C24_Witness ==
    /\ NoApplyInProgress
    /\ Len(resize_log) = 1
    /\ resize_log[1].src = "client" /\ ~resize_log[1].ok
    /\ current_size = <<100, 30>>
    /\ pty_size = <<80, 25>>
    /\ \E c \in Clients :
         /\ rcvd[c] # <<>>
         /\ pc[c] = "active" /\ snd_alive[c] /\ rcv_alive[c]
         /\ sent[c][Len(sent[c])] = WinSizeFrame(<<100, 30>>)

(***************************************************************************)
(* The host terminal in interactive mode: it is resized to valid and       *)
(* invalid sizes, the poller follows; connections attach and forward.      *)
(***************************************************************************)
NextPoll ==
    \/ \E c \in Clients : Accept(c)
    \/ \E c \in Clients : HsWinSize(c, {TRUE})
    \/ \E c \in Clients : HsReadOnly(c, {TRUE})
    \/ \E c \in Clients : HsHeadless(c, {TRUE})
    \/ \E c \in Clients : HsDrain(c, {TRUE})
    \/ \E c \in Clients : SenderStep(c, {TRUE})
    \/ HostResize({<<100, 30>>, <<111, 30>>, <<9, 30>>})
    \/ PollTick
    \/ PollSetSize
    \/ PollResizePty({TRUE})
    \/ PollAnnounce

\* the server started without --headless
InitPoll == Init /\ ~headless

SpecPoll == InitPoll /\ [][NextPoll]_vars

\* the step is one of the size poller
PollerSteps == poll_pc' # poll_pc

\* C25: in interactive mode, a poll that finds the host terminal at a valid
\* size other than the last observed one applies it at once: Current size
\* and the PTY are set to it and one WinSize announcement is published,
\* and the poller neither reads nor writes the last-resize timestamp or the
\* pending slot; a poll that finds an invalid size changes nothing.
C25_Step ==
    /\ PollerSteps => UNCHANGED <<last_resize_time, pending_resize, now>>
    /\ (poll_pc = "wait" /\ PollerSteps) =>
          /\ ~headless
          /\ host_size # last_size /\ ~OutOfRange(host_size)
          /\ poll_pc' = "setSize" /\ poll_val' = host_size
    /\ (poll_pc = "setSize" /\ PollerSteps) => current_size' = poll_val
    /\ (poll_pc = "resizePty" /\ PollerSteps) =>
          /\ pty_size' = poll_val
          /\ Len(resize_log') = Len(resize_log) + 1
    /\ (poll_pc = "announce" /\ PollerSteps) =>
          /\ current_size = poll_val /\ pty_size = poll_val
          /\ last_size' = poll_val
          /\ \A c \in Clients :
                Subscribed(c) => rx'[c] = Append(rx[c], AnnounceItem(poll_val))

C25_PollerAppliesAtOnce ==
    /\ [][C25_Step]_vars
    /\ [](\A i \in DOMAIN resize_log :
             resize_log[i].src = "host" /\ ~OutOfRange(resize_log[i].size))
    /\ []((poll_pc = "wait" /\ ~OutOfRange(host_size)) =>
             (host_size = last_size <=> current_size = host_size))
    /\ []((poll_pc = "wait" /\ OutOfRange(host_size)) =>
             (current_size = last_size /\ pty_size = last_size))

\* the host terminal went to (100, 30) and then to (111, 30); the poller has
\* applied both, one after the other, and a client attached throughout was
\* sent both announcements
C25_Witness ==
    /\ ~headless
    /\ poll_pc = "wait"
    /\ Len(resize_log) = 2
    /\ resize_log[1].size = <<100, 30>> /\ resize_log[2].size = <<111, 30>>
    /\ current_size = <<111, 30>> /\ pty_size = <<111, 30>>
    /\ \E c \in Clients :
         /\ Len(sent[c]) >= 5
         /\ sent[c][Len(sent[c]) - 1] = WinSizeFrame(<<100, 30>>)
         /\ sent[c][Len(sent[c])] = WinSizeFrame(<<111, 30>>)

(***************************************************************************)
(* Protocol errors: connections that attach (every transport up) and send  *)
(* frames of which some are malformed or of an unknown type.  No time      *)
(* passes.                                                                 *)
(***************************************************************************)
ProtocolFrames ==
    {WriteIn("X"), WinSizeIn(<<100, 30>>),
     MalformedIn("Write"), MalformedIn("WinSize"), UnknownIn, BadEnvelopeIn}

NextProtocol ==
    \/ \E c \in Clients : Accept(c)
    \/ \E c \in Clients : HsWinSize(c, {TRUE})
    \/ \E c \in Clients : HsReadOnly(c, {TRUE})
    \/ \E c \in Clients : HsHeadless(c, {TRUE})
    \/ \E c \in Clients : HsDrain(c, {TRUE})
    \/ \E c \in Clients : RecvFrame(c, ProtocolFrames)
    \/ \E c \in Clients : ReqStore(c)

SpecProtocol == Init /\ [][NextProtocol]_vars

\* a frame the receiver cannot use
Unusable(f) == ~f.decodes \/ f.type \notin {"Write", "WinSize"}

\* C26: an inbound frame that is malformed (envelope, base64 or inner JSON)
\* or of an unrecognized type is dropped alone: it writes nothing to the
\* PTY, changes no resize state, and the connection stays active, so that
\* later well-formed frames of the same client are processed.
C26_Step(c) ==
    /\ (Len(rcvd'[c]) = Len(rcvd[c]) + 1 /\ Unusable(Received(c))) =>
          UNCHANGED <<pty_written, size_vars, coord_vars, hub_vars, host_vars,
                      resize_log, requests, pc, sent, broken, snd_alive, rcv_alive,
                      life_vars>>
    /\ (Receives(c, "Write") /\ ~Unusable(Received(c)) /\ ~readonly) =>
          pty_written' = Append(pty_written,
                                [src |-> "client", id |-> c, data |-> Received(c).data])
    /\ (Receives(c, "WinSize") /\ ~Unusable(Received(c)) /\ headless) =>
          rs_pc'[c] # "idle"

C26_MalformedDroppedAlone ==
    /\ [][\A c \in Clients : C26_Step(c)]_vars
    /\ [](\A c \in Clients :
             att[c].done => (pc[c] = "active" /\ rcv_alive[c] /\ snd_alive[c]))

\* a client sent a malformed Write, a frame of an unknown type and then a
\* well-formed Write, whose payload is all that reached the PTY
C26_Witness ==
    /\ ~readonly
    /\ \E c \in Clients :
         /\ rcvd[c] = <<MalformedIn("Write"), UnknownIn, WriteIn("X")>>
         /\ pty_written = <<[src |-> "client", id |-> c, data |-> "X"]>>
         /\ pc[c] = "active" /\ rcv_alive[c]

(***************************************************************************)
(* Claims about connections that close and about slow clients.             *)
(***************************************************************************)
\* C27: when the inbound task of a connection ends (its client closed the
\* transport), the outbound task is stopped and the subscription dropped,
\* with no need of further PTY output; so the reader, finding no client
\* attached, buffers what it reads next.
C27_Step ==
    (/\ rd_pc = "check" /\ rd_pc' # "check"
     /\ \A c \in Clients : pc[c] \in {"idle", "closed"}) => rd_pc' = "buffer"

C27_InboundEndClosesAll ==
    /\ [](\A c \in Clients : (att[c].done /\ ~rcv_alive[c]) => ~Subscribed(c))
    /\ [][C27_Step]_vars

(***************************************************************************)
(* Slow clients: connections that attach (every transport up), forward     *)
(* when they get to it and send Write and WinSize frames, while the reader *)
(* publishes more chunks in a row than the channel holds.                  *)
(***************************************************************************)
NextLag ==
    \/ ReaderBurst(CHANNEL_CAPACITY + 1)
    \/ \E c \in Clients : Accept(c)
    \/ \E c \in Clients : HsWinSize(c, {TRUE})
    \/ \E c \in Clients : HsReadOnly(c, {TRUE})
    \/ \E c \in Clients : HsHeadless(c, {TRUE})
    \/ \E c \in Clients : HsDrain(c, {TRUE})
    \/ \E c \in Clients : SenderStep(c, {TRUE})
    \/ \E c \in Clients : RecvFrame(c, {WriteIn("X"), WinSizeIn(<<100, 30>>)})
    \/ \E c \in Clients : ReqStore(c)

SpecLag == Init /\ [][NextLag]_vars

\* C28: when the channel overflows for a slow subscriber, its sender task
\* sees the error and ends, which closes the connection: from then on the
\* client is sent no frame and no Write or WinSize frame it sends is
\* processed.
C28_Step(c) ==
    (att[c].done /\ ~snd_alive[c]) =>
        /\ sent'[c] = sent[c]
        /\ rcvd'[c] = rcvd[c]
        /\ UNCHANGED <<pty_written, requests, pending_resize>>

C28_OverflowClosesConnection ==
    /\ [](\A c \in Clients : (att[c].done /\ ~snd_alive[c]) => ~rcv_alive[c])
    /\ [][\A c \in Clients : C28_Step(c)]_vars

(***************************************************************************)
(* Progress of the reader.  The reader thread takes its steps sooner or    *)
(* later; clients attach and forward at their own pace or not at all, and  *)
(* the send of a replay completes when the client's transport takes it.    *)
(***************************************************************************)
NextProgress ==
    \/ ReaderRead({FALSE})
    \/ ReaderCheck
    \/ ReaderPublish
    \/ ReaderBuffer
    \/ \E c \in Clients : Accept(c)
    \/ \E c \in Clients : HsWinSize(c, {TRUE})
    \/ \E c \in Clients : HsReadOnly(c, {TRUE})
    \/ \E c \in Clients : HsHeadless(c, {TRUE})
    \/ \E c \in Clients : HsDrain(c, {TRUE})
    \/ \E c \in Clients : DrainBegin(c)
    \/ \E c \in Clients : DrainEnd(c, BOOLEAN)
    \/ \E c \in Clients : SenderStep(c, {TRUE})

FairProgress ==
    WF_vars(ReaderCheck) /\ WF_vars(ReaderPublish) /\ WF_vars(ReaderBuffer)

SpecProgress == Init /\ [][NextProgress]_vars /\ FairProgress

\* C29: the reader never waits on a subscriber: with any number of stalled
\* or slow clients, every chunk it has read is sooner or later handed to the
\* channel or to the replay buffer, and the reader is back at its read.
C29_ReaderProgress == (rd_pc # "read") ~> (rd_pc = "read")

(***************************************************************************)
(* Writes to the PTY, step by step.  write_all may take more than one      *)
(* write call to put a payload on the PTY: a payload is written as a head  *)
(* and a tail, and pty_written records both.  A source is in the middle of *)
(* its payload while it has written more heads than tails.                 *)
(***************************************************************************)
WritePayloads == {"a", "b"}

PartsWritten(src, id, part) ==
    Cardinality({i \in DOMAIN pty_written :
                    /\ pty_written[i].src = src
                    /\ pty_written[i].id = id
                    /\ pty_written[i].part = part})

Writing(src, id) == PartsWritten(src, id, "head") > PartsWritten(src, id, "tail")

\* writers that do not take the mutex
WriterLockFree_nolock == TRUE

\* the pty_writer mutex is free: nobody is between its lock and the end of
\* the statement that holds the guard
WriterLockFree ==
    /\ ~Writing("stdin", 0)
    /\ \A c \in Clients : ~Writing("client", c)

\* receiver_task, a Write frame that decodes: the session's read-only check,
\* then pty_writer.lock().await and the first part of write_all
RecvWrite(c, payloads) ==
    /\ Running
    /\ rcv_alive[c]
    /\ ~broken[c]
    /\ rs_pc[c] = "idle"
    /\ ~Writing("client", c)
    /\ TotalRcvd(NumClients) < MaxFrames
    /\ \E p \in payloads :
         /\ rcvd' = [rcvd EXCEPT ![c] = Append(rcvd[c], WriteIn(p))]
         /\ IF IgnoresWrite
            THEN UNCHANGED pty_written
            ELSE /\ WriterLockFree
                 /\ pty_written' = Append(pty_written,
                        [src |-> "client", id |-> c, data |-> p, part |-> "head"])
    /\ UNCHANGED <<life_vars, readonly, headless, hub_vars, pc, sent, broken, snd_alive,
                   rcv_alive, size_vars, coord_vars, host_vars, hist_vars>>

\* the rest of write_all and the flush; the guard is dropped at the end of
\* the statement
WriteRest(c) ==
    /\ Running
    /\ Writing("client", c)
    /\ LET w == SelectSeq(pty_written,
                   LAMBDA e : e.src = "client" /\ e.id = c /\ e.part = "head")
       IN pty_written' = Append(pty_written, [w[Len(w)] EXCEPT !.part = "tail"])
    /\ UNCHANGED <<life_vars, readonly, headless, hub_vars, pc, sent, broken, snd_alive,
                   rcv_alive, rcvd, size_vars, coord_vars, host_vars, hist_vars>>

\* the stdin thread: the n-th chunk read from the host's stdin, then
\* blocking_lock() and the first part of write_all
StdinWrite ==
    /\ Running
    /\ ~headless
    /\ stdin_pc = "read"
    /\ ~Writing("stdin", 0)
    /\ PartsWritten("stdin", 0, "head") < MaxFrames
    /\ WriterLockFree
    /\ pty_written' = Append(pty_written,
           [src |-> "stdin", id |-> 0,
            data |-> PartsWritten("stdin", 0, "head") + 1, part |-> "head"])
    /\ UNCHANGED <<life_vars, readonly, headless, hub_vars, pc, sent, broken, snd_alive,
                   rcv_alive, rcvd, size_vars, coord_vars, host_vars, hist_vars>>

StdinWriteRest ==
    /\ Running
    /\ Writing("stdin", 0)
    /\ pty_written' = Append(pty_written,
           [src |-> "stdin", id |-> 0,
            data |-> PartsWritten("stdin", 0, "head"), part |-> "tail"])
    /\ UNCHANGED <<life_vars, readonly, headless, hub_vars, pc, sent, broken, snd_alive,
                   rcv_alive, rcvd, size_vars, coord_vars, host_vars, hist_vars>>

NextWrite ==
    \/ \E c \in Clients : Accept(c)
    \/ \E c \in Clients : HsWinSize(c, {TRUE})
    \/ \E c \in Clients : HsReadOnly(c, {TRUE})
    \/ \E c \in Clients : HsHeadless(c, {TRUE})
    \/ \E c \in Clients : HsDrain(c, {TRUE})
    \/ \E c \in Clients : RecvWrite(c, WritePayloads)
    \/ \E c \in Clients : WriteRest(c)
    \/ StdinWrite
    \/ StdinWriteRest

SpecWrite == InitResize /\ [][NextWrite]_vars

\* the payloads a source has started to write, in the order of the PTY
HeadsOf(src, id) ==
    LET w == SelectSeq(pty_written,
                 LAMBDA e : e.src = src /\ e.id = id /\ e.part = "head")
    IN [i \in DOMAIN w |-> w[i].data]

\* the payloads of the Write frames a client has sent, in its send order
SentPayloads(c) ==
    LET w == SelectSeq(rcvd[c], LAMBDA f : f.type = "Write" /\ f.decodes)
    IN [i \in DOMAIN w |-> w[i].data]

\* h and t are the head and the tail of one payload of one source
SameUnit(h, t) ==
    /\ h.part = "head" /\ t.part = "tail"
    /\ h.src = t.src /\ h.id = t.id
    /\ h.data = t.data

ProcStop ==
    /\ Running
    /\ headless
    /\ pp_pc = "wait"
    /\ cancelled
    /\ pp_pc' = "done"
    /\ UNCHANGED <<life_vars, readonly, headless, hub_vars, conn_vars, size_vars, now,
                   next_tick, rs_pc, rs_val, pp_val, host_vars, hist_vars>>

\* the size poller's select!: token_size.cancelled() => break
PollStop ==
    /\ Running
    /\ ~headless
    /\ poll_pc = "wait"
    /\ cancelled
    /\ poll_pc' = "done"
    /\ UNCHANGED <<life_vars, readonly, headless, hub_vars, conn_vars, size_vars,
                   coord_vars, host_size, host_changes, last_size, poll_val, hist_vars>>

\* the stdin thread: stdin.read returns Ok(0) or Err(e); the thread prints a
\* line to stderr and its loop ends
StdinEnd ==
    /\ Alive
    /\ ~headless
    /\ stdin_pc = "read"
    /\ stdin_pc' = "ended"
    /\ UNCHANGED <<readonly, headless, hub_vars, conn_vars, size_vars, coord_vars,
                   host_vars, hist_vars, start_vars, stop_vars, client>>

NextCancel ==
    \/ NextExit
    \/ ProcStop
    \/ PollStop
    \/ StdinEnd

FairCancel == FairExit /\ WF_vars(ProcStop) /\ WF_vars(PollStop)

SpecCancel == Init /\ [][NextCancel]_vars /\ FairCancel

\* every long-running task has ended by itself
TasksEnded ==
    /\ headless => pp_pc = "done"
    /\ ~headless => poll_pc = "done" /\ stdin_pc = "ended"
    /\ mon_pc = "done"
    /\ rd_pc = "exited"
    /\ \A c \in Clients : ~snd_alive[c] /\ ~rcv_alive[c]

\* C31: once the shutdown token is cancelled, every long-running task (the
\* pending-resize processor, the size poller, the child monitor, the PTY
\* reader, the stdin reader and both tasks of every connection) sooner or
\* later sees the cancellation and ends by itself.
C31_TasksObserveCancel == cancelled ~> TasksEnded

\* the processor clears the pending slot
C32_Step ==
    (pp_pc = "clear" /\ pp_pc' = "stamp") => pending_resize = <<pp_val>>

\* C32: when the pending-resize processor dispatches, the value it removes
\* from the pending slot is the value it applies, so that no stored request
\* is cleared unapplied, however the tick interleaves with the requests of
\* the clients.
C32_DispatchTakesWhatItApplies == [][C32_Step]_vars

\* a is b with some of its elements left out
RECURSIVE IsSubseq(_, _)
IsSubseq(a, b) ==
    IF a = <<>> THEN TRUE
    ELSE IF b = <<>> THEN FALSE
    ELSE IF Head(a) = Head(b) THEN IsSubseq(Tail(a), Tail(b))
    ELSE IsSubseq(a, Tail(b))

\* the sizes the PTY was resized to on behalf of clients, in order
ClientApplied ==
    LET w == SelectSeq(resize_log, LAMBDA e : e.src = "client")
    IN [i \in DOMAIN w |-> w[i].size]

\* C33: client resizes are applied in request order: the sizes applied to
\* the PTY for clients are a subsequence of the valid client requests, so a
\* request from the pending slot is never applied after a later request.
C33_AppliedInRequestOrder == IsSubseq(ClientApplied, requests)

(***************************************************************************)
(* Both resize sources and the host's stdin, in either mode: clients send  *)
(* WinSize frames, the coordinator and its processor run, the host         *)
(* terminal changes and is polled, and the host types.                     *)
(***************************************************************************)
NextModes ==
    \/ \E c \in Clients : Accept(c)
    \/ \E c \in Clients : HsWinSize(c, {TRUE})
    \/ \E c \in Clients : HsReadOnly(c, {TRUE})
    \/ \E c \in Clients : HsHeadless(c, {TRUE})
    \/ \E c \in Clients : HsDrain(c, {TRUE})
    \/ \E c \in Clients : RecvFrame(c, {WinSizeIn(<<100, 30>>), WinSizeIn(<<111, 30>>)})
    \/ \E c \in Clients : ReqStore(c)
    \/ \E c \in Clients : ReqSetSize(c)
    \/ \E c \in Clients : ReqResizePty(c, {TRUE})
    \/ \E c \in Clients : ReqAnnounce(c)
    \/ ProcTick
    \/ ProcCheck
    \/ ProcClear
    \/ ProcStamp
    \/ ProcSetSize
    \/ ProcResizePty({TRUE})
    \/ ProcAnnounce
    \/ Advance
    \/ HostResize({<<100, 30>>})
    \/ PollTick
    \/ PollSetSize
    \/ PollResizePty({TRUE})
    \/ PollAnnounce
    \/ StdinForward

SpecModes == InitResize /\ [][NextModes]_vars

\* no client request is in the coordinator and the processor is at rest
ClientSourceIdle ==
    /\ pending_resize = <<>>
    /\ pp_pc = "wait"
    /\ \A c \in Clients : rs_pc[c] = "idle"

\* the size poller and the stdin forwarder have done nothing
HostSourceIdle ==
    /\ poll_pc = "wait"
    /\ last_size = init_size
    /\ \A i \in DOMAIN pty_written : pty_written[i].src # "stdin"

C34_Step ==
    current_size' # current_size =>
        IF headless THEN pp_pc' # pp_pc \/ rs_pc' # rs_pc
                    ELSE poll_pc' # poll_pc

\* C34: the two resize sources exclude each other by mode.  Interactive:
\* the pending slot stays empty and only the size poller changes Current
\* size.  Headless: the size poller and the stdin forwarder never run and
\* only client requests and the pending-resize processor change Current
\* size.
C34_SourcesExclusiveByMode ==
    /\ [](IF headless THEN HostSourceIdle ELSE ClientSourceIdle)
    /\ [][C34_Step]_vars

\* a headless session in which one request was applied at once and the
\* processor is applying a second one from the pending slot
C34_Witness ==
    /\ headless
    /\ Len(requests) >= 2
    /\ ClientResizes # {}
    /\ pp_pc = "resizePty"
    /\ current_size = pp_val
    /\ pending_resize = <<>>

\* the reader hands its chunk over: to the replay buffer only while nobody
\* is subscribed, to the channel only while somebody is
C35_Step ==
    /\ (rd_pc = "buffer" /\ rd_pc' = "read") => receiver_count = 0
    /\ (rd_pc = "publish" /\ rd_pc' = "read") => receiver_count > 0

\* C35: every chunk read from the PTY goes to exactly one destination, the
\* replay buffer when there is no subscriber and the channel otherwise: the
\* reader does not touch the replay buffer while a subscriber exists, and
\* no chunk is dropped.
C35_OneDestination == [][C35_Step]_vars

\* the positions of handle_socket during the attach handshake
Attaching == {"sendWinSize", "sendingWinSize", "sendReadOnly", "sendHeadless",
              "drain", "draining"}

\* a handshake send of connection c fails
C36_Step(c) ==
    (pc[c] \in Attaching /\ pc'[c] = "closed") =>
        /\ output_buffer' = output_buffer
        /\ sent'[c] = sent[c]
        /\ ~snd_alive'[c] /\ ~rcv_alive'[c]
        /\ rx'[c] = <<>>

\* the replay buffer loses content only to a connection that was sent it
C36_Kept ==
    (output_buffer # <<>> /\ output_buffer' # output_buffer) =>
        \/ rd_pc = "buffer" /\ rd_pc' = "read"
        \/ \E c \in Clients :
             /\ pc[c] \in Attaching /\ pc'[c] = "active"
             /\ sent'[c] = Append(sent[c], WriteFrame(output_buffer))

\* C36: a handshake send that fails (WinSize, ReadOnly, Headless or the
\* replay Write) ends the connection and leaves the replay buffer exactly as
\* it was, so that the content is still there for the next client.
C36_FailedAttachKeepsReplay ==
    [][C36_Kept /\ \A c \in Clients : C36_Step(c)]_vars

\* the first connection got its three handshake frames and failed on the
\* replay; the second one attached and was sent a replay
C36_Witness ==
    /\ pc[1] = "closed" /\ ~att[1].done /\ Len(sent[1]) = 3
    /\ pc[2] = "active" /\ att[2].replay # <<>>
    /\ att[2].replay[1].lo = 1

\* C37: interactive mode: once the host terminal is lost (the host's stdin
\* is at its end or fails to read), the session shuts down: the shutdown
\* token is cancelled and the process exits.
C37_StdinLossShutsDown ==
    (~headless /\ stdin_pc = "ended") ~> (cancelled /\ exit_status # <<>>)

(***************************************************************************)
(* Stalled transports.  A handshake send completes when the client's       *)
(* transport takes it, which is up to the client; every step that the      *)
(* server takes by itself is taken sooner or later.                        *)
(***************************************************************************)
NextStall ==
    \/ \E c \in Clients : Accept(c)
    \/ \E c \in Clients : HsWinSize(c, {TRUE})
    \/ \E c \in Clients : WinSizeBegin(c)
    \/ \E c \in Clients : WinSizeEnd(c, BOOLEAN)
    \/ \E c \in Clients : HsReadOnly(c, {TRUE})
    \/ \E c \in Clients : HsHeadless(c, {TRUE})
    \/ \E c \in Clients : HsDrain(c, {TRUE})
    \/ \E c \in Clients : RecvFrame(c, {WinSizeIn(<<100, 30>>)})
    \/ \E c \in Clients : ReqStore(c)
    \/ \E c \in Clients : ReqSetSize(c)
    \/ \E c \in Clients : ReqResizePty(c, {TRUE})
    \/ \E c \in Clients : ReqAnnounce(c)
    \/ ProcTick
    \/ ProcCheck
    \/ ProcClear
    \/ ProcStamp
    \/ ProcSetSize
    \/ ProcResizePty({TRUE})
    \/ ProcAnnounce
    \/ Advance
    \/ HostResize({<<100, 30>>})
    \/ PollTick
    \/ PollSetSize
    \/ PollResizePty({TRUE})
    \/ PollAnnounce

FairStall ==
    /\ \A c \in Clients :
         /\ WF_vars(HsWinSize(c, {TRUE})) /\ WF_vars(HsReadOnly(c, {TRUE}))
         /\ WF_vars(HsHeadless(c, {TRUE})) /\ WF_vars(HsDrain(c, {TRUE}))
         /\ WF_vars(ReqStore(c)) /\ WF_vars(ReqSetSize(c))
         /\ WF_vars(ReqResizePty(c, {TRUE})) /\ WF_vars(ReqAnnounce(c))
    /\ WF_vars(ProcCheck) /\ WF_vars(ProcClear) /\ WF_vars(ProcStamp)
    /\ WF_vars(ProcSetSize) /\ WF_vars(ProcResizePty({TRUE})) /\ WF_vars(ProcAnnounce)
    /\ WF_vars(PollSetSize) /\ WF_vars(PollResizePty({TRUE})) /\ WF_vars(PollAnnounce)

SpecStall == Init /\ [][NextStall]_vars /\ FairStall

\* a resize apply that has started comes to its end
AppliesComplete ==
    /\ \A c \in Clients : (rs_pc[c] = "setSize") ~> (rs_pc[c] = "idle")
    /\ (pp_pc = "setSize") ~> (pp_pc = "wait")
    /\ (poll_pc = "setSize") ~> (poll_pc = "wait")

\* a connection that is not itself waiting for its transport goes on
AttachesComplete ==
    \A c \in Clients :
        (pc[c] \in {"sendWinSize", "sendReadOnly", "sendHeadless", "drain"})
            ~> (pc[c] \in {"sendingWinSize", "draining", "active", "closed"})

\* C39: a client whose transport stalls during its handshake does not
\* block the session: while its send is pending, resize applies (from a
\* client, from the pending-resize processor, from the size poller) and the
\* attaches of other clients still complete.
C39_StalledAttachBlocksNobody == AppliesComplete /\ AttachesComplete

(***************************************************************************)
(* The mutexes that are held over more than one step: Current size (the    *)
(* initial WinSize of an attach), the replay buffer (the drain) and the    *)
(* PTY writer, with the tasks that ask for them: the reader, the size      *)
(* poller, the attaching connections and the receivers.                    *)
(***************************************************************************)
NextLocks ==
    \/ ReaderRead({FALSE})
    \/ ReaderCheck
    \/ ReaderPublish
    \/ ReaderBuffer
    \/ \E c \in Clients : Accept(c)
    \/ \E c \in Clients : HsWinSize(c, {TRUE})
    \/ \E c \in Clients : WinSizeBegin(c)
    \/ \E c \in Clients : WinSizeEnd(c, BOOLEAN)
    \/ \E c \in Clients : HsReadOnly(c, {TRUE})
    \/ \E c \in Clients : HsHeadless(c, {TRUE})
    \/ \E c \in Clients : HsDrain(c, {TRUE})
    \/ \E c \in Clients : DrainBegin(c)
    \/ \E c \in Clients : DrainEnd(c, BOOLEAN)
    \/ \E c \in Clients : RecvWrite(c, {"a"})
    \/ \E c \in Clients : WriteRest(c)
    \/ HostResize({<<100, 30>>})
    \/ PollTick
    \/ PollSetSize
    \/ PollResizePty({TRUE})
    \/ PollAnnounce

FairLocks ==
    /\ WF_vars(ReaderCheck) /\ WF_vars(ReaderPublish) /\ WF_vars(ReaderBuffer)
    /\ \A c \in Clients :
         /\ WF_vars(HsWinSize(c, {TRUE})) /\ WF_vars(HsReadOnly(c, {TRUE}))
         /\ WF_vars(HsHeadless(c, {TRUE})) /\ WF_vars(HsDrain(c, {TRUE}))
         /\ WF_vars(WriteRest(c))
    /\ WF_vars(PollSetSize) /\ WF_vars(PollResizePty({TRUE})) /\ WF_vars(PollAnnounce)

SpecLocks == Init /\ [][NextLocks]_vars /\ FairLocks

\* the mutexes a connection's tasks hold
HeldBy(c) ==
    (IF pc[c] = "sendingWinSize" THEN {"current_size"} ELSE {})
    \cup (IF pc[c] = "draining" THEN {"output_buffer"} ELSE {})
    \cup (IF Writing("client", c) THEN {"pty_writer"} ELSE {})

\* C38: the session's mutexes never deadlock: no task takes one of them
\* while it holds another, and so every lock request (of the reader, the
\* resize paths, the stdin forwarder and the connection tasks) is granted
\* sooner or later under fair scheduling.
C38_LocksAlwaysGranted ==
    /\ [](\A c \in Clients : Cardinality(HeldBy(c)) <= 1)
    /\ (rd_pc = "buffer") ~> (rd_pc = "read")
    /\ (poll_pc = "setSize") ~> (poll_pc = "resizePty")
    /\ \A c \in Clients : (pc[c] = "sendWinSize") ~> (pc[c] # "sendWinSize")
    /\ \A c \in Clients : (pc[c] = "drain") ~> (pc[c] # "drain")
    /\ \A c \in Clients : Writing("client", c) ~> ~Writing("client", c)

(***************************************************************************)
(* The attach-client: its terminal, the Headless and WinSize frames it is  *)
(* sent, winsize_task and the WinSize branch of sender_task.               *)
(***************************************************************************)
server_vars == <<readonly, headless, hub_vars, conn_vars, size_vars, coord_vars,
                 host_vars, hist_vars, start_vars, stop_vars, stdin_pc>>

\* the client's terminal is resized; sigwinch_handler sets the flag
ClTermResize(sizes) ==
    /\ client.changes < MaxHostResizes
    /\ \E s \in sizes \ {client.term_size} :
         client' = [client EXCEPT !.term_size = s,
                                  !.changes = @ + 1,
                                  !.window_size_changed = TRUE]
    /\ UNCHANGED server_vars

\* stdout_task, a Headless frame: server_headless.store(headless)
ClRecvHeadless(vals) ==
    /\ Len(client.heard) < MaxFrames
    /\ \E v \in vals :
         client' = [client EXCEPT !.server_headless = v,
                                  !.heard = Append(@, v)]
    /\ UNCHANGED server_vars

\* stdout_task, a WinSize frame: set_terminal_size(cols, rows); a terminal
\* whose size changes raises SIGWINCH
ClRecvWinSize(sizes) ==
    /\ client.changes < MaxHostResizes
    /\ \E s \in sizes \ {client.term_size} :
         client' = [client EXCEPT !.term_size = s,
                                  !.changes = @ + 1,
                                  !.window_size_changed = TRUE]
    /\ UNCHANGED server_vars

\* a winsize_task that reports every change
SendsSizeChange_always == TRUE

\* if server_headless_for_winsize.load(Relaxed)
SendsSizeChange == client.server_headless

\* winsize_task's tick with WINDOW_SIZE_CHANGED set: swap(false), then
\* get_terminal_size() (ok or not) compared with last_size
ClTick(oks) ==
    /\ client.window_size_changed
    /\ \E ok \in oks :
         IF ok /\ client.term_size # client.last_size
         THEN client' = [client EXCEPT
                            !.window_size_changed = FALSE,
                            !.size_chan = IF SendsSizeChange
                                          THEN Append(@, client.term_size)
                                          ELSE @,
                            !.last_size = client.term_size]
         ELSE client' = [client EXCEPT !.window_size_changed = FALSE]
    /\ UNCHANGED server_vars

\* sender_task, size_rx.recv(): the WinSize frame is built and sent
ClSendWinSize ==
    /\ client.size_chan # <<>>
    /\ client' = [client EXCEPT
                     !.ws_sent = Append(@, WinSizeIn(Head(client.size_chan))),
                     !.size_chan = Tail(@)]
    /\ UNCHANGED server_vars

NextClient ==
    \/ ClTermResize({<<100, 30>>, <<111, 30>>})
    \/ ClRecvHeadless(BOOLEAN)
    \/ ClRecvWinSize({<<80, 24>>})
    \/ ClTick(BOOLEAN)
    \/ ClSendWinSize

SpecClient == Init /\ [][NextClient]_vars

\* the client has been told that the server is headless
HeardHeadless == \E i \in DOMAIN client.heard : client.heard[i]

\* winsize_task looks at a changed size while the flag is not set: the size
\* becomes the last seen one and nothing is queued for sending
C40_Step ==
    (/\ ~client.server_headless
     /\ client.window_size_changed /\ ~client'.window_size_changed) =>
        /\ client'.size_chan = client.size_chan
        /\ client'.ws_sent = client.ws_sent
        /\ client'.last_size \in {client.last_size, client.term_size}

\* C40: the attach-client sends a WinSize frame only after it got a
\* Headless frame with the value true; before any Headless frame, or after
\* Headless false, a change of its terminal's size is recorded as the last
\* seen size and no WinSize frame is sent for it.
C40_ClientSendsOnlyIfHeadless ==
    /\ []((client.size_chan # <<>> \/ client.ws_sent # <<>>) => HeardHeadless)
    /\ [][C40_Step]_vars

\* told true and then false: one size was sent in between, and a later
\* change is recorded as the last seen size with nothing sent or queued
C40_Witness ==
    /\ client.heard = <<TRUE, FALSE>>
    /\ Len(client.ws_sent) = 1
    /\ client.size_chan = <<>>
    /\ client.last_size = client.term_size
    /\ client.last_size # client.ws_sent[1].size

====
